---- MODULE Spec2Model ----
(***************************************************************************)
(* jwt-pizza-service: the session store, the credential store and the      *)
(* authentication / authorization layer in front of them.                  *)
(*                                                                         *)
(* The relational tables are the state.  Every method of class DB is an    *)
(* operator from tables to tables plus a result; every route handler is    *)
(* an action that composes those operators the way the handler awaits      *)
(* them.  The middleware setAuthUser runs when a request arrives, the      *)
(* route handler runs later: other requests can complete in between, so a  *)
(* protected request is two steps (Request, then its handler).             *)
(***************************************************************************)
EXTENDS Integers, Sequences, FiniteSets, TLC

\* ------------------------------------------------------------------ bounds
MaxUsers    == 2   \* rows the user table may hold
MaxSessions == 1
MaxTime     == 1   \* the clock runs over the seconds 0..MaxTime
MaxPending  == 1   \* requests that are past setAuthUser and not yet handled
MaxMenu     == 1   \* rows the menu table may hold
MaxOrders   == 1   \* createOrder handlers that may start
MaxItems    == 2   \* items an order request may list
MaxPlacing  == 1   \* createOrder handlers that run at the same time
MaxFranchises == 1 \* franchise rows that may be inserted
MaxStores   == 1   \* store rows that may be inserted

\* ------------------------------------------------------------------ values
None      == "none"                 \* JavaScript undefined: a field that is absent
Names     == {"A"}
Emails    == {"e1", "e2"}
Passwords == {"p1", "p2"}
Opt(S)    == S \cup {None}

Diner      == "diner"
Admin      == "admin"
Franchisee == "franchisee"

\* a role as it appears in a user object: the kind and the scoping object id,
\* 0 when there is none (the userRole table stores 0, getUser maps 0 to absent)
RoleOf(kind, obj) == [role |-> kind, objectId |-> obj]

\* the role lists the credential store is seeded with through DB.addUser
SeedRoles == {<<RoleOf(Admin, 0)>>}

VARIABLES
  user,       \* table user: sequence of rows [id, name, email, password]
  userRole,   \* table userRole: sequence of rows [userId, role, objectId]
  auth,       \* table auth: set of rows [token, userId], token is the key
  franchise,  \* table franchise: sequence of rows [id, name]
  now,        \* wall clock in seconds, the iat of the tokens minted now
  pending,    \* requests past setAuthUser: [token, state] (state of req.user)
  last,       \* the response of the operation that completed last
  menu,       \* table menu: sequence of rows [id, title, description, price]
  store,      \* table store: sequence of rows [id, franchiseId, name]
  dinerOrder, \* table dinerOrder: sequence of rows [id, dinerId, franchiseId, storeId]
  orderItem,  \* table orderItem: rows [id, orderId, menuId, description, price]
  insertId,   \* AUTO_INCREMENT of the tables that lose rows: [franchise, store]
  metrics,    \* the counters [totalOrders, successfulOrders, revenue]
  factory,    \* the calls made to the factory and the calls logged: [calls, log]
  placing,    \* the createOrder handlers that are between two awaits
  answer,     \* the response of the order or franchise route that completed last
  connections, \* the connections to the database: [open, calls]
  founding,   \* the createFranchise calls that are between two awaits
  signature   \* the last call of getTokenSignature: [token, value]

\* the state of the order and franchise routes
routeVars == <<menu, store, dinerOrder, orderItem, insertId, metrics, factory, placing,
               connections, founding, signature>>

vars == <<user, userRole, auth, franchise, now, pending, last, menu, store,
          dinerOrder, orderItem, insertId, metrics, factory, placing, answer,
          connections, founding, signature>>

\* ------------------------------------------------------------------ bcrypt
\* bcrypt.hash(password, 10): one-way; the salt is left out because compare
\* does not depend on it.  The stored value is never the clear password.
hash(password) == <<"bcrypt", password>>

\* bcrypt.compare(password, hashed)
compare(password, hashed) == hashed = hash(password)

\* ------------------------------------------------------------------ tokens
\* jsonwebtoken: sign(payload, secret) is a function of the payload and of the
\* second it is called in (the iat claim).  The payload is the user object
\* the handler holds: shape tells the key order of that object apart
\* (addUser's result lists id last, getUser's result lists it first).
sign(u, shape, iat) ==
  [kind |-> "jwt", shape |-> shape, id |-> u.id, email |-> u.email,
   roles |-> u.roles, iat |-> iat]

\* jwt.verify(token, secret): only tokens signed with the secret pass
verify(token) == token.kind = "jwt"

\* no Authorization header
NoToken ==
  [kind |-> "none", shape |-> "", id |-> 0, email |-> "", roles |-> <<>>, iat |-> 0]

\* a token that was not signed with the service's secret; it claims user 1
\* and Admin
ForgedToken ==
  [kind |-> "forged", shape |-> "", id |-> 1, email |-> "",
   roles |-> <<RoleOf(Admin, 0)>>, iat |-> 0]

ForeignTokens == {ForgedToken}

\* ------------------------------------------------------------------ class DB
\* getID(connection, key, value, table) on the franchise table by name:
\* the id of the first row, 0 for "throw new Error('No ID found')"
getID(f, name) ==
  LET rows == SelectSeq(f, LAMBDA row : row.name = name)
  IN  IF Len(rows) > 0 THEN rows[1].id ELSE 0

\* the userRole rows addUser inserts for roles[1..n], stopping at the first
\* Franchisee role whose franchise does not resolve
RECURSIVE roleRows(_, _, _)
roleRows(f, userId, roles) ==
  IF roles = <<>> THEN [rows |-> <<>>, err |-> None]
  ELSE LET role == Head(roles)
           oid  == IF role.role = Franchisee THEN getID(f, role.object) ELSE 0
       IN  IF role.role = Franchisee /\ oid = 0
           THEN [rows |-> <<>>, err |-> "No ID found"]
           ELSE LET rest == roleRows(f, userId, Tail(roles))
                IN  [rows |-> <<[userId |-> userId, role |-> role.role, objectId |-> oid]>>
                              \o rest.rows,
                     err  |-> rest.err]

\* addUser(user): INSERT INTO user, then one INSERT INTO userRole per role.
\* No statement checks the email against the rows already there.
addUser(u, r, f, name, email, password, roles) ==
  LET userId == Len(u) + 1
      rr     == roleRows(f, userId, roles)
  IN  [user     |-> Append(u, [id |-> userId, name |-> name, email |-> email,
                               password |-> hash(password)]),
       userRole |-> r \o rr.rows,
       err      |-> rr.err,
       result   |-> [id |-> userId, name |-> name, email |-> email, roles |-> roles]]

\* the roles getUser returns: SELECT * FROM userRole WHERE userId=?
rolesOfUser(r, userId) ==
  LET rows == SelectSeq(r, LAMBDA row : row.userId = userId)
  IN  [i \in 1..Len(rows) |-> RoleOf(rows[i].role, rows[i].objectId)]

\* getUser that answers a wrong password differently from an unknown email
getUserLeaky(u, r, email, password) ==
  LET rows == SelectSeq(u, LAMBDA row : row.email = email)
      bad(status, msg) == [status |-> status, msg |-> msg, id |-> 0,
                           email |-> None, roles |-> <<>>]
  IN  IF email = None THEN bad(500, "bind parameter undefined")
      ELSE IF rows = <<>> THEN bad(404, "unknown user")
      ELSE IF password = None THEN bad(500, "data and hash arguments required")
      ELSE IF ~compare(password, rows[1].password) THEN bad(401, "bad password")
      ELSE [status |-> 200, msg |-> "", id |-> rows[1].id, email |-> rows[1].email,
            roles |-> rolesOfUser(r, rows[1].id)]

\* getUser(email, password): the first row with that email decides
getUser(u, r, email, password) ==
  LET rows == SelectSeq(u, LAMBDA row : row.email = email)
      bad(status, msg) == [status |-> status, msg |-> msg, id |-> 0,
                           email |-> None, roles |-> <<>>]
  IN  IF email = None THEN bad(500, "bind parameter undefined")
      ELSE IF rows = <<>> THEN bad(404, "unknown user")
      ELSE IF password = None THEN bad(500, "data and hash arguments required")
      ELSE IF ~compare(password, rows[1].password) THEN bad(404, "unknown user")
      ELSE [status |-> 200, msg |-> "", id |-> rows[1].id, email |-> rows[1].email,
            roles |-> rolesOfUser(r, rows[1].id)]

\* updateUser builds its statement as text, `UPDATE user SET ...,
\* email='${email}' WHERE id=${userId}`, the email last before the WHERE.
\* An email with a quote ends the string literal; this one leaves the rest of
\* the statement, the WHERE clause, in a comment
Injected == "e2' -- "

\* the string literal the statement assigns to the email column
literalOf(email) == IF email = Injected THEN "e2" ELSE email

\* the rows the statement updates: those of WHERE id=userId, or every row
\* when the WHERE clause is not part of the statement
whereId(email, row, userId) == email = Injected \/ row.id = userId

\* updateUser whose UPDATE has no WHERE clause: it writes every row
updateUserNoWhere(u, r, userId, email, password) ==
  LET u1 == [i \in 1..Len(u) |->
               [u[i] EXCEPT
                  !.password = IF password # None THEN hash(password) ELSE @,
                  !.email    = IF email # None THEN email ELSE @]]
  IN  [user |-> u1, result |-> getUser(u1, r, email, password)]

\* updateUser(userId, email, password): one UPDATE of the fields that are
\* given, then "return this.getUser(email, password)" with the arguments as
\* they were passed
updateUser(u, r, userId, email, password) ==
  LET u1 == [i \in 1..Len(u) |->
               IF whereId(email, u[i], userId)
               THEN [u[i] EXCEPT
                       !.password = IF password # None THEN hash(password) ELSE @,
                       !.email    = IF email # None THEN literalOf(email) ELSE @]
               ELSE u[i]]
  IN  [user |-> u1, result |-> getUser(u1, r, email, password)]

\* the auth table is keyed by token: an INSERT of a token that has a row fails
authKeyFree(a, token) == \A row \in a : row.token # token

\* loginUser(userId, token): INSERT INTO auth (token, userId)
loginUser(a, userId, token) ==
  IF authKeyFree(a, token)
  THEN [err |-> None, auth |-> a \cup {[token |-> token, userId |-> userId]}]
  ELSE [err |-> "ER_DUP_ENTRY", auth |-> a]

\* isLoggedIn without its query: every token counts as logged in
isLoggedInAlways(a, token) == TRUE

\* isLoggedIn(token): SELECT userId FROM auth WHERE token=? has a row
isLoggedIn(a, token) == \E row \in a : row.token = token

\* logoutUser whose DELETE compares the stored token with the signature
\* segment of the bearer token: it matches no row
logoutUserBySignature(a, token) ==
  [err |-> None, auth |-> a, affected |-> 0]

\* logoutUser that rejects when its DELETE affected no row
logoutUserStrict(a, token) ==
  [err |-> IF \E row \in a : row.token = token THEN None ELSE "not logged in",
   auth |-> {row \in a : row.token # token},
   affected |-> Cardinality({row \in a : row.token = token})]

\* logoutUser that ends every session of the user the token belongs to
logoutUserEverywhere(a, token) ==
  LET gone == {row \in a : \E own \in a : own.token = token /\ own.userId = row.userId}
  IN  [err |-> None, auth |-> a \ gone,
       affected |-> Cardinality({row \in a : row.token = token})]

\* logoutUser(token): DELETE FROM auth WHERE token=?  (affected: the rows
\* the statement deleted)
logoutUser(a, token) ==
  [err |-> None, auth |-> {row \in a : row.token # token},
   affected |-> Cardinality({row \in a : row.token = token})]

\* ------------------------------------------------------------------ authRouter
\* setAuthUser: the state of req.user for a request that carries token.
\* fault: the check itself fails for a reason that is not the token's
identityOf(a, token, fault) ==
  IF token.kind = "none" THEN "absent"
  ELSE IF fault THEN "faulted"
  ELSE IF ~verify(token) THEN "absent"
  ELSE IF ~isLoggedIn(a, token) THEN "absent"
  ELSE "ok"

\* req.user.isRole(role), over the roles of the token's payload
isRole(roles, role) == \E i \in 1..Len(roles) : roles[i].role = role

\* authenticateToken: the handler runs only with an identity
authenticated(req) == req.state = "ok"

\* a validation that does not look at the name
registerValidLax(name, email, password) == email # None /\ password # None

\* register: all three fields are required
registerValid(name, email, password) ==
  name # None /\ email # None /\ password # None

\* update: the caller is the target or holds Admin
mayUpdate(token, userId) == token.id = userId \/ isRole(token.roles, Admin)

\* a response: status, message, and the user id, roles and token of its body
Response(op, status, msg, id, roles, token) ==
  [op |-> op, status |-> status, msg |-> msg, id |-> id, roles |-> roles,
   token |-> token]

\* POST /api/auth: validate, addUser with the role Diner, setAuth (sign the
\* user object, loginUser), answer {user, token}
register(u, r, f, a, t, name, email, password) ==
  IF ~registerValid(name, email, password)
  THEN [user |-> u, userRole |-> r, auth |-> a,
        resp |-> Response("register", 400, "name, email, and password are required",
                          0, <<>>, NoToken)]
  ELSE LET add   == addUser(u, r, f, name, email, password, <<RoleOf(Diner, 0)>>)
           token == sign(add.result, "reg", t)
           li    == loginUser(a, add.result.id, token)
       IN  IF add.err # None
           THEN [user |-> add.user, userRole |-> add.userRole, auth |-> a,
                 resp |-> Response("register", 500, add.err, 0, <<>>, NoToken)]
           ELSE IF li.err # None
           THEN [user |-> add.user, userRole |-> add.userRole, auth |-> a,
                 resp |-> Response("register", 500, li.err, 0, <<>>, NoToken)]
           ELSE [user |-> add.user, userRole |-> add.userRole, auth |-> li.auth,
                 resp |-> Response("register", 200, "", add.result.id,
                                   add.result.roles, token)]

\* PUT /api/auth: getUser, setAuth, answer {user, token}
login(u, r, a, t, email, password) ==
  LET g     == getUser(u, r, email, password)
      token == sign(g, "login", t)
      li    == loginUser(a, g.id, token)
  IN  IF g.status # 200
      THEN [auth |-> a, resp |-> Response("login", g.status, g.msg, 0, <<>>, NoToken)]
      ELSE IF li.err # None
      THEN [auth |-> a, resp |-> Response("login", 500, li.err, 0, <<>>, NoToken)]
      ELSE [auth |-> li.auth, resp |-> Response("login", 200, "", g.id, g.roles, token)]

\* DELETE /api/auth: authenticateToken, clearAuth (logoutUser of the bearer
\* token), answer 'logout successful'
logout(a, req) ==
  IF ~authenticated(req)
  THEN [auth |-> a, affected |-> 0,
        resp |-> Response("logout", 401, "unauthorized", 0, <<>>, NoToken)]
  ELSE LET lo == logoutUser(a, req.token)
       IN  IF lo.err # None
           THEN [auth |-> a, affected |-> 0,
                 resp |-> Response("logout", 500, lo.err, 0, <<>>, NoToken)]
           ELSE [auth |-> lo.auth, affected |-> lo.affected,
                 resp |-> Response("logout", 200, "logout successful", 0, <<>>, NoToken)]

\* PUT /api/auth/:userId: authenticateToken, the caller is the target or an
\* Admin, DB.updateUser, answer the user it returns
update(u, r, req, userId, email, password) ==
  IF ~authenticated(req)
  THEN [user |-> u, resp |-> Response("update", 401, "unauthorized", 0, <<>>, NoToken)]
  ELSE IF ~mayUpdate(req.token, userId)
  THEN [user |-> u, resp |-> Response("update", 403, "unauthorized", 0, <<>>, NoToken)]
  ELSE LET upd == updateUser(u, r, userId, email, password)
       IN  [user |-> upd.user,
            resp |-> Response("update", upd.result.status, upd.result.msg,
                              upd.result.id, upd.result.roles, NoToken)]

\* ------------------------------------------------------------------ Init
\* a request as its handler sees it when there is none
NoReq == [token |-> NoToken, state |-> "n/a", kind |-> "none"]

\* what an observer holds of the operation that has just completed: the
\* operation and status of the response, the kind of bearer token and the
\* state of req.user it ran with, and the session rows it deleted
Observed(resp, req, affected) ==
  [op |-> resp.op, status |-> resp.status, kind |-> req.kind, state |-> req.state,
   affected |-> affected]

\* nothing has just completed
Idle == Observed(Response("none", 0, "", 0, <<>>, NoToken), NoReq, 0)

\* a response without a body of its own
NoBody == [none |-> TRUE]

\* the response of an order or franchise route: status, the message of an
\* error body, and the body of a success
Answer(op, status, message, body) ==
  [op |-> op, status |-> status, message |-> message, body |-> body]

\* no order or franchise route has just answered
NoAnswer == Answer("none", 0, "", NoBody)

\* the counters of metrics.js when the process starts
NoMetrics == [totalOrders |-> 0, successfulOrders |-> 0, revenue |-> 0]

Init ==
  /\ user = <<>>
  /\ userRole = <<>>
  /\ auth = {}
  /\ franchise = <<>>
  /\ now = 0
  /\ pending = {}
  /\ last = Idle
  /\ menu = <<>>
  /\ store = <<>>
  /\ dinerOrder = <<>>
  /\ orderItem = <<>>
  /\ insertId = [franchise |-> 0, store |-> 0]
  /\ metrics = NoMetrics
  /\ factory = [calls |-> <<>>, log |-> <<>>]
  /\ placing = {}
  /\ answer = NoAnswer
  /\ connections = [open |-> 0, calls |-> {}]
  /\ founding = {}
  /\ signature = [token |-> <<>>, value |-> <<>>]

\* a step of the auth routes or of the clock: the order and franchise routes
\* do nothing
Quiet == answer' = NoAnswer /\ UNCHANGED routeVars

\* a second passes
Tick ==
  /\ now < MaxTime
  /\ now' = now + 1
  /\ last' = Idle
  /\ UNCHANGED <<user, userRole, auth, franchise, pending>>
  /\ Quiet

\* ------------------------------------------------------------------ DB API
\* DB.addUser called directly (how users with a role other than Diner come
\* to exist)
AddUser(name, email, password, roles) ==
  /\ Len(user) < MaxUsers
  /\ LET add == addUser(user, userRole, franchise, name, email, password, roles)
     IN  /\ user' = add.user
         /\ userRole' = add.userRole
  /\ last' = Idle
  /\ UNCHANGED <<auth, franchise, now, pending>>
  /\ Quiet

\* DB.loginUser called directly with a token the service did not mint
LoginUser(userId, token) ==
  /\ Cardinality(auth) < MaxSessions
  /\ auth' = loginUser(auth, userId, token).auth
  /\ last' = Idle
  /\ UNCHANGED <<user, userRole, franchise, now, pending>>
  /\ Quiet

\* DB.logoutUser called directly
LogoutUser(token) ==
  /\ auth' = logoutUser(auth, token).auth
  /\ last' = Idle
  /\ UNCHANGED <<user, userRole, franchise, now, pending>>
  /\ Quiet

\* ------------------------------------------------------------------ requests
\* the tokens the service can have signed for the users it holds
SignedTokens ==
  {sign([id |-> user[i].id, email |-> user[i].email,
         roles |-> rolesOfUser(userRole, user[i].id)], shape, iat) :
     i \in 1..Len(user), shape \in {"reg", "login"}, iat \in 0..now}

\* the tokens that have a session
ActiveTokens == {row.token : row \in auth}

\* the tokens a client can present: none, one the service did not sign, one
\* it signed, one that has a session
ClientTokens == {NoToken} \cup ForeignTokens \cup SignedTokens \cup ActiveTokens

\* the request as its handler sees it: the state of req.user, the kind of
\* bearer token and, with an identity, the token (without an identity no
\* handler reads it)
requestOf(a, token, fault) ==
  LET state == identityOf(a, token, fault)
  IN  [token |-> IF state = "ok" THEN token ELSE NoToken, state |-> state,
       kind |-> token.kind]

\* a request to a protected route arrives: setAuthUser runs
Request(token, fault) ==
  /\ Cardinality(pending) < MaxPending
  /\ pending' = pending \cup {requestOf(auth, token, fault)}
  /\ last' = Idle
  /\ UNCHANGED <<user, userRole, auth, franchise, now>>
  /\ Quiet

\* the observer sees a response when no other request is in flight
Seen(obs) == IF pending' = {} THEN obs ELSE Idle

Register(name, email, password) ==
  LET out == register(user, userRole, franchise, auth, now, name, email, password)
  IN  /\ Len(out.user) <= MaxUsers
      /\ Cardinality(out.auth) <= MaxSessions
      /\ user' = out.user
      /\ userRole' = out.userRole
      /\ auth' = out.auth
      /\ UNCHANGED <<franchise, now, pending>>
      /\ last' = Seen(Observed(out.resp, NoReq, 0))
      /\ Quiet

\* PUT /api/auth while the session store holds at most `sessions` rows
LoginWithin(sessions, email, password) ==
  LET out == login(user, userRole, auth, now, email, password)
  IN  /\ Cardinality(out.auth) <= sessions
      /\ auth' = out.auth
      /\ UNCHANGED <<user, userRole, franchise, now, pending>>
      /\ last' = Seen(Observed(out.resp, NoReq, 0))
      /\ Quiet

Login(email, password) == LoginWithin(MaxSessions, email, password)

Logout(req) ==
  LET out == logout(auth, req)
  IN  /\ pending' = pending \ {req}
      /\ auth' = out.auth
      /\ UNCHANGED <<user, userRole, franchise, now>>
      /\ last' = Seen(Observed(out.resp, req, out.affected))
      /\ Quiet

UpdateUser(req, userId, email, password) ==
  LET out == update(user, userRole, req, userId, email, password)
  IN  /\ pending' = pending \ {req}
      /\ user' = out.user
      /\ UNCHANGED <<userRole, auth, franchise, now>>
      /\ last' = Seen(Observed(out.resp, req, 0))
      /\ Quiet

Next ==
  \/ Tick
  \/ \E name \in Names, email \in Emails, password \in Passwords, roles \in SeedRoles :
       AddUser(name, email, password, roles)
  \/ \E userId \in 1..MaxUsers, token \in ForeignTokens : LoginUser(userId, token)
  \/ \E token \in ClientTokens : LogoutUser(token)
  \/ \E token \in ClientTokens, fault \in BOOLEAN : Request(token, fault)
  \/ \E name \in Opt(Names), email \in Opt(Emails), password \in Opt(Passwords) :
       Register(name, email, password)
  \/ \E email \in Opt(Emails), password \in Opt(Passwords) : Login(email, password)
  \/ \E req \in pending : Logout(req)
  \/ \E req \in pending, userId \in 1..MaxUsers, email \in Opt(Emails),
        password \in Opt(Passwords) : UpdateUser(req, userId, email, password)

Spec == Init /\ [][Next]_vars

\* ------------------------------------------------------------------ claims
\* the persisted tables
Tables == <<user, userRole, auth, franchise, menu, store, dinerOrder, orderItem>>

\* the token has a row in the auth table
HasSession(a, token) == \E row \in a : row.token = token

RevokedAfterLogout ==
  [][ /\ \A req \in pending : authenticated(req) /\ Logout(req) =>
           /\ ~HasSession(auth', req.token)
           /\ verify(req.token)
           /\ identityOf(auth', req.token, FALSE) = "absent"
      /\ \A token \in ClientTokens : LogoutUser(token) =>
           /\ ~HasSession(auth', token)
           /\ identityOf(auth', token, FALSE) = "absent"
      /\ \A t \in {row.token : row \in auth'} \ {row.token : row \in auth} :
           \/ \E userId \in 1..MaxUsers : LoginUser(userId, t)
           \/ \E email \in Emails, password \in Passwords :
                /\ Login(email, password)
                /\ login(user, userRole, auth, now, email, password).resp.token = t
           \/ \E name \in Names, email \in Emails, password \in Passwords :
                /\ Register(name, email, password)
                /\ register(user, userRole, franchise, auth, now, name, email,
                            password).resp.token = t
    ]_vars

\* a logout has just answered 200 and deleted the session of its token
RevokedAfterLogoutWitness ==
  /\ last.op = "logout"
  /\ last.status = 200
  /\ last.affected = 1

\* C3: a revoked token stays revoked: when Logout has deleted the session of
\* a token, no login in the state it leaves records a session under that
\* same token again.
RevokedIsTerminal ==
  [][ \A req \in pending :
        authenticated(req) /\ Logout(req) /\ HasSession(auth, req.token) =>
          \A email \in Emails, password \in Passwords :
            ~HasSession(login(user', userRole', auth', now', email, password).auth,
                        req.token)
    ]_vars

\* the session store without the rows of token
Without(a, token) == {row \in a : row.token # token}

\* C4: logout of a token that has no session (logged out before, or never
\* logged in) raises no error and changes no table, at the store
\* (logoutUser) and in the handler that reaches it; a second logout of the
\* same token right after a first one changes nothing and raises no error.
LogoutIdempotent ==
  [][ /\ \A req \in pending : authenticated(req) /\ Logout(req) =>
           /\ ~HasSession(auth, req.token) =>
                /\ logout(auth, req).resp.status = 200
                /\ UNCHANGED Tables
           /\ logout(auth', req).resp.status = 200
           /\ logout(auth', req).auth = auth'
           /\ auth' = Without(auth, req.token)
      /\ \A token \in ClientTokens : LogoutUser(token) =>
           /\ logoutUser(auth, token).err = None
           /\ ~HasSession(auth, token) => UNCHANGED Tables
           /\ logoutUser(auth', token).err = None
           /\ logoutUser(auth', token).auth = auth'
           /\ auth' = Without(auth, token)
    ]_vars

\* a logout has just answered 200 for a token whose session was gone when
\* the handler ran: it deleted nothing
LogoutIdempotentWitness ==
  /\ last.op = "logout"
  /\ last.status = 200
  /\ last.state = "ok"
  /\ last.affected = 0

\* C5: a Register with valid fields succeeds, a Login with the same email
\* and password right after it succeeds too, both tokens have an identity
\* afterwards, and both answers carry the same user id and the single role
\* Diner.
RegisterThenLogin ==
  [][ \A name \in Names, email \in Emails, password \in Passwords :
        Register(name, email, password) =>
          LET reg == register(user, userRole, franchise, auth, now, name, email,
                              password).resp
              lin == login(user', userRole', auth', now', email, password)
          IN  /\ reg.status = 200
              /\ lin.resp.status = 200
              /\ lin.resp.id = reg.id
              /\ reg.roles = <<RoleOf(Diner, 0)>>
              /\ lin.resp.roles = reg.roles
              /\ identityOf(lin.auth, reg.token, FALSE) = "ok"
              /\ identityOf(lin.auth, lin.resp.token, FALSE) = "ok"
    ]_vars

\* some user has this email and this password
Matches(u, email, password) ==
  \E i \in 1..Len(u) : u[i].email = email /\ compare(password, u[i].password)

\* C6: a Login whose email no user has and a Login whose email exists but
\* whose password fits no user of that email get the same answer, 404
\* 'unknown user' without user or token, and change no table.
LoginUnknownUser ==
  [][ \A email \in Emails, password \in Passwords :
        Login(email, password) /\ ~Matches(user, email, password) =>
          /\ login(user, userRole, auth, now, email, password).resp
               = Response("login", 404, "unknown user", 0, <<>>, NoToken)
          /\ pending' = {} => last'.status = 404
          /\ UNCHANGED Tables
    ]_vars

\* a login has just answered 404 while every email has a user: the password
\* was wrong
LoginUnknownUserWitness ==
  /\ last.op = "login"
  /\ last.status = 404
  /\ \A email \in Emails : \E i \in 1..Len(user) : user[i].email = email

\* C7: a Register that lacks the name, the email or the password answers 400
\* 'name, email, and password are required' and creates no user, no role
\* assignment and no session.
RegisterRequiresFields ==
  [][ \A name \in Opt(Names), email \in Opt(Emails), password \in Opt(Passwords) :
        /\ name = None \/ email = None \/ password = None
        /\ Register(name, email, password)
        => /\ register(user, userRole, franchise, auth, now, name, email,
                       password).resp
                = Response("register", 400, "name, email, and password are required",
                           0, <<>>, NoToken)
           /\ pending' = {} => last'.status = 400
           /\ UNCHANGED Tables
    ]_vars

\* a register has just answered 400
RegisterRequiresFieldsWitness ==
  /\ last.op = "register"
  /\ last.status = 400

\* the update is one its caller may make, of a user that exists
Permitted(req, userId) ==
  /\ authenticated(req)
  /\ req.token.id = userId \/ isRole(req.token.roles, Admin)
  /\ userId \in 1..Len(user)

\* C8: when UpdateUser has set the email of a user from E1 to another E2,
\* Login with E2 and the user's current password succeeds with that user's
\* id and roles, and Login with E1 fails with 'unknown user' whatever the
\* password.
EmailRoundTrip ==
  [][ \A req \in pending, userId \in 1..MaxUsers, email \in Emails,
         password \in Opt(Passwords) :
        /\ Permitted(req, userId)
        /\ user[userId].email # email
        /\ UpdateUser(req, userId, email, password)
        => /\ user'[userId].email = email
           /\ \A p \in Passwords : compare(p, user'[userId].password) =>
                LET lin == login(user', userRole', auth', now', email, p).resp
                IN  /\ lin.status = 200
                    /\ lin.id = userId
                    /\ lin.roles = rolesOfUser(userRole, userId)
           /\ \A p \in Passwords :
                login(user', userRole', auth', now', user[userId].email, p).resp
                  = Response("login", 404, "unknown user", 0, <<>>, NoToken)
    ]_vars

\* C9: a permitted UpdateUser that gives exactly one of email and password
\* persists that field and answers 200 with the record of the target user.
UpdateOneField ==
  [][ \A req \in pending, userId \in 1..MaxUsers, email \in Opt(Emails),
         password \in Opt(Passwords) :
        /\ Permitted(req, userId)
        /\ (email = None) # (password = None)
        /\ UpdateUser(req, userId, email, password)
        => /\ email # None => user'[userId].email = email
           /\ password # None => user'[userId].password = hash(password)
           /\ update(user, userRole, req, userId, email, password).resp.status = 200
           /\ update(user, userRole, req, userId, email, password).resp.id = userId
    ]_vars

\* C10: an authenticated UpdateUser whose caller is neither the target nor
\* an Admin answers 403 and changes no table; a user record changes only in
\* an UpdateUser of that user by that user or by an Admin.
UpdateNeedsSelfOrAdmin ==
  [][ \A req \in pending, userId \in 1..MaxUsers, email \in Opt(Emails),
         password \in Opt(Passwords) :
        authenticated(req) /\ UpdateUser(req, userId, email, password) =>
          /\ ~(req.token.id = userId \/ isRole(req.token.roles, Admin)) =>
               /\ update(user, userRole, req, userId, email, password).resp.status = 403
               /\ pending' = {} => last'.status = 403
               /\ UNCHANGED Tables
          /\ \A i \in 1..Len(user) : user'[i] # user[i] =>
               /\ i = userId
               /\ req.token.id = i \/ isRole(req.token.roles, Admin)
    ]_vars

\* an update has just answered 403 to a caller with an identity
UpdateNeedsSelfOrAdminWitness ==
  /\ last.op = "update"
  /\ last.status = 403
  /\ last.state = "ok"

\* ------------------------------------------------------------------ order and
\* franchise data
Prices   == {1, 2}
MenuIds  == {1, 9}          \* the ids a client names; no menu row ever has id 9
Titles   == {"Veggie"}
StoreNames     == {"SLC"}
FranchiseNames == {"pizzaPocket"}

\* an item of an order request
OrderItems ==
  {[menuId |-> m, description |-> t, price |-> pr] :
     m \in MenuIds, t \in Titles, pr \in Prices}

\* the item lists of an order request
ItemLists == UNION {[1..n -> OrderItems] : n \in 0..MaxItems}

\* the bodies of POST /api/order.  missing names a field the body lacks:
\* "franchiseId" stands for the body {} and "items" for a body without items
OrderBodies ==
  {[franchiseId |-> 1, storeId |-> 1, items |-> items, missing |-> ""] :
     items \in ItemLists}
  \cup {[franchiseId |-> 1, storeId |-> 1, items |-> <<>>, missing |-> m] :
          m \in {"franchiseId", "items"}}

\* the bodies of PUT /api/order/menu
MenuItems ==
  {[title |-> t, description |-> "A garden of delight", image |-> "pizza1.png",
    price |-> pr] : t \in Titles, pr \in {2}}

\* an Error: StatusCodeError carries a statusCode, a plain Error carries none
\* (0)
Error(message, statusCode) == [message |-> message, statusCode |-> statusCode]

\* no error
NoError == Error("", 0)

\* a query rejected by the database or the connection (an infrastructure fault)
QueryFailed == Error("query failed", 0)

RECURSIVE SumOf(_, _)
\* items.reduce((sum, item) => sum + item.price, 0); also SUM(oi.price)
SumOf(rows, k) == IF k = 0 THEN 0 ELSE SumOf(rows, k - 1) + rows[k].price

\* ------------------------------------------------------------------ class DB,
\* menu and orders
getMenu(m) == m

\* addMenuItem(item): INSERT INTO menu; the row gets the next id
addMenuItem(m, item) ==
  LET row == [id |-> Len(m) + 1, title |-> item.title, description |-> item.description,
              image |-> item.image, price |-> item.price]
  IN  [menu |-> Append(m, row), result |-> row]

\* getID whose failure is a StatusCodeError with status 404
noIdFoundAs404 == Error("No ID found", 404)

\* getID: throw new Error('No ID found')
noIdFound == Error("No ID found", 0)

\* getID(connection, 'id', value, 'menu'): the id of the first row with that
\* id, 0 for the throw
getMenuID(m, value) ==
  LET rows == SelectSeq(m, LAMBDA row : row.id = value)
  IN  IF Len(rows) > 0 THEN rows[1].id ELSE 0

\* addDinerOrder, first statement: INSERT INTO dinerOrder (dinerId,
\* franchiseId, storeId, date); orderId = insertId
insertDinerOrder(d, dinerId, order) ==
  Append(d, [id |-> Len(d) + 1, dinerId |-> dinerId,
             franchiseId |-> order.franchiseId, storeId |-> order.storeId])

\* an INSERT that also rewrites the price of the stored items of the same
\* menu row
insertOrderItemRepricing(oi, orderId, menuId, item) ==
  Append([i \in 1..Len(oi) |->
            IF oi[i].menuId = menuId THEN [oi[i] EXCEPT !.price = item.price]
            ELSE oi[i]],
         [id |-> Len(oi) + 1, orderId |-> orderId, menuId |-> menuId,
          description |-> item.description, price |-> item.price])

\* addDinerOrder, loop body: INSERT INTO orderItem (orderId, menuId,
\* description, price) with the description and price of the request
insertOrderItem(oi, orderId, menuId, item) ==
  Append(oi, [id |-> Len(oi) + 1, orderId |-> orderId, menuId |-> menuId,
              description |-> item.description, price |-> item.price])

\* SELECT id, menuId, description, price FROM orderItem WHERE orderId=?
itemsOfOrder(oi, orderId) ==
  LET rows == SelectSeq(oi, LAMBDA row : row.orderId = orderId)
  IN  [i \in 1..Len(rows) |->
         [id |-> rows[i].id, menuId |-> rows[i].menuId,
          description |-> rows[i].description, price |-> rows[i].price]]

\* req.query.page as it arrives, and the number it stands for
Pages == {"1", "2"}
PageNumber == [page \in Pages |-> IF page = "1" THEN 1 ELSE 2]

\* config.db.listPerPage
listPerPage == 10

\* getOffset(currentPage = 1, listPerPage)
getOffset(currentPage, perPage) == (currentPage - 1) * perPage

\* a getOrders whose SELECT has no WHERE dinerId=?: the orders of every diner
getOrdersOfAll(d, oi, userId, page) ==
  LET pg     == IF page = None THEN 1 ELSE PageNumber[page]
      offset == getOffset(pg, listPerPage)
      upto   == IF offset + listPerPage < Len(d) THEN offset + listPerPage ELSE Len(d)
      page1  == SubSeq(d, offset + 1, upto)
  IN  [dinerId |-> userId,
       orders  |-> [i \in 1..Len(page1) |->
                      [id |-> page1[i].id, franchiseId |-> page1[i].franchiseId,
                       storeId |-> page1[i].storeId,
                       items |-> itemsOfOrder(oi, page1[i].id)]],
       page    |-> pg]

\* getOrders(user, page = 1): the diner's orders LIMIT offset,listPerPage,
\* each with its items
getOrders(d, oi, userId, page) ==
  LET pg     == IF page = None THEN 1 ELSE PageNumber[page]
      offset == getOffset(pg, listPerPage)
      rows   == SelectSeq(d, LAMBDA row : row.dinerId = userId)
      upto   == IF offset + listPerPage < Len(rows) THEN offset + listPerPage
                ELSE Len(rows)
      page1  == SubSeq(rows, offset + 1, upto)
  IN  [dinerId |-> userId,
       orders  |-> [i \in 1..Len(page1) |->
                      [id |-> page1[i].id, franchiseId |-> page1[i].franchiseId,
                       storeId |-> page1[i].storeId,
                       items |-> itemsOfOrder(oi, page1[i].id)]],
       page    |-> pg]

\* ------------------------------------------------------------------ class DB,
\* franchises and stores
\* the bodies of POST /api/franchise: a name and the emails of its admins
FranchiseBodies ==
  {[name |-> n, admins |-> a] : n \in FranchiseNames, a \in {<<>>, <<"e2">>}}

\* SELECT id, name FROM user WHERE email=?  (adminUser[0]: the first row)
firstByEmail(u, email) ==
  LET rows == SelectSeq(u, LAMBDA row : row.email = email)
  IN  IF rows = <<>> THEN 0 ELSE rows[1].id

\* the number of statements a call of n statements completes before the
\* database fails; n when it does not fail
FaultsIn(n) == 0..n

\* the message of createFranchise for an admin email without a user
unknownAdmin(email) ==
  IF email = "e1" THEN "unknown user for franchise admin e1 provided"
  ELSE "unknown user for franchise admin e2 provided"

\* a createFranchise that inserts the franchise before it looks up the admins
createFranchiseEager(u, r, f, ids, body, fault) ==
  LET admins  == body.admins
      unknown == {i \in 1..Len(admins) : firstByEmail(u, admins[i]) = 0}
      first   == CHOOSE i \in unknown : \A j \in unknown : i <= j
      fid     == ids.franchise + 1
      all     == 1 + Len(admins)
      done    == IF fault < all THEN fault ELSE all
      f1      == Append(f, [id |-> fid, name |-> body.name])
      roles   == [i \in 1..Len(admins) |->
                    [userId |-> firstByEmail(u, admins[i]), role |-> Franchisee,
                     objectId |-> fid]]
      same    == [franchise |-> f, userRole |-> r, insertId |-> ids]
  IN  IF unknown # {}
      THEN [franchise |-> f1, userRole |-> r,
            insertId |-> [ids EXCEPT !.franchise = fid],
            err |-> Error(unknownAdmin(admins[first]), 404), result |-> NoBody]
      ELSE IF done = 0
      THEN same @@ [err |-> QueryFailed, result |-> NoBody]
      ELSE [franchise |-> f1,
            userRole  |-> r \o SubSeq(roles, 1, done - 1),
            insertId  |-> [ids EXCEPT !.franchise = fid],
            err       |-> IF done = all THEN NoError ELSE QueryFailed,
            result    |-> IF done = all
                          THEN [id |-> fid, name |-> body.name,
                                admins |-> [i \in 1..Len(admins) |->
                                   [email |-> admins[i], id |-> roles[i].userId,
                                    name |-> u[roles[i].userId].name]]]
                          ELSE NoBody]

\* createFranchise(franchise): look up every admin (404 for the first one
\* that has no user), INSERT INTO franchise, then one INSERT INTO userRole
\* per admin; each statement is committed on its own.  fault: the number of
\* INSERTs that succeed before one fails
createFranchise(u, r, f, ids, body, fault) ==
  LET admins  == body.admins
      unknown == {i \in 1..Len(admins) : firstByEmail(u, admins[i]) = 0}
      first   == CHOOSE i \in unknown : \A j \in unknown : i <= j
      fid     == ids.franchise + 1
      all     == 1 + Len(admins)
      done    == IF fault < all THEN fault ELSE all
      f1      == Append(f, [id |-> fid, name |-> body.name])
      roles   == [i \in 1..Len(admins) |->
                    [userId |-> firstByEmail(u, admins[i]), role |-> Franchisee,
                     objectId |-> fid]]
      same    == [franchise |-> f, userRole |-> r, insertId |-> ids]
  IN  IF unknown # {}
      THEN same @@ [err |-> Error(unknownAdmin(admins[first]), 404), result |-> NoBody]
      ELSE IF done = 0
      THEN same @@ [err |-> QueryFailed, result |-> NoBody]
      ELSE [franchise |-> f1,
            userRole  |-> r \o SubSeq(roles, 1, done - 1),
            insertId  |-> [ids EXCEPT !.franchise = fid],
            err       |-> IF done = all THEN NoError ELSE QueryFailed,
            result    |-> IF done = all
                          THEN [id |-> fid, name |-> body.name,
                                admins |-> [i \in 1..Len(admins) |->
                                   [email |-> admins[i], id |-> roles[i].userId,
                                    name |-> u[roles[i].userId].name]]]
                          ELSE NoBody]

\* a transaction that leaves the role assignments of the franchise alone
deletingKeepsRoles(s, r, f, franchiseId, done) ==
  [store     |-> IF done >= 1 THEN SelectSeq(s, LAMBDA row : row.franchiseId # franchiseId)
                 ELSE s,
   userRole  |-> r,
   franchise |-> IF done >= 3 THEN SelectSeq(f, LAMBDA row : row.id # franchiseId)
                 ELSE f]

\* the tables of the open transaction of deleteFranchise after `done` of its
\* statements: DELETE FROM store WHERE franchiseId, DELETE FROM userRole
\* WHERE objectId, DELETE FROM franchise WHERE id
deleting(s, r, f, franchiseId, done) ==
  [store     |-> IF done >= 1 THEN SelectSeq(s, LAMBDA row : row.franchiseId # franchiseId)
                 ELSE s,
   userRole  |-> IF done >= 2 THEN SelectSeq(r, LAMBDA row : row.objectId # franchiseId)
                 ELSE r,
   franchise |-> IF done >= 3 THEN SelectSeq(f, LAMBDA row : row.id # franchiseId)
                 ELSE f]

\* a deleteFranchise that keeps what was deleted before the failure
deleteFranchiseNoRollback(s, r, f, franchiseId, fault) ==
  deleting(s, r, f, franchiseId, fault) @@
  [err |-> IF fault < 3 THEN Error("unable to delete franchise", 500) ELSE NoError]

\* deleteFranchise(franchiseId): the three statements in one transaction;
\* fault: the number of statements that succeed before one fails, 3 when
\* none does.  A failure rolls back and throws 'unable to delete franchise'
deleteFranchise(s, r, f, franchiseId, fault) ==
  IF fault < 3
  THEN deleting(s, r, f, franchiseId, 0) @@
       [err |-> Error("unable to delete franchise", 500)]
  ELSE deleting(s, r, f, franchiseId, 3) @@ [err |-> NoError]

\* the revenue of a store: SUM(oi.price) over the items of its orders
totalRevenue(d, oi, storeId) ==
  LET rows == SelectSeq(oi, LAMBDA item :
                \E i \in 1..Len(d) : d[i].id = item.orderId /\ d[i].storeId = storeId)
  IN  SumOf(rows, Len(rows))

\* getFranchise(franchise): its admins (id, name, email) and its stores with
\* their revenue
getFranchise(u, r, s, d, oi, row) ==
  LET ar == SelectSeq(r, LAMBDA x : x.objectId = row.id /\ x.role = Franchisee
                                    /\ x.userId \in 1..Len(u))
      sr == SelectSeq(s, LAMBDA x : x.franchiseId = row.id)
  IN  [id |-> row.id, name |-> row.name,
       admins |-> [i \in 1..Len(ar) |->
                     [id |-> ar[i].userId, name |-> u[ar[i].userId].name,
                      email |-> u[ar[i].userId].email]],
       stores |-> [i \in 1..Len(sr) |->
                     [id |-> sr[i].id, name |-> sr[i].name,
                      totalRevenue |-> totalRevenue(d, oi, sr[i].id)]]]

\* getUserFranchises(userId): the franchises the user's Franchisee role
\* assignments name, each through getFranchise
getUserFranchises(u, r, f, s, d, oi, userId) ==
  LET ids  == {r[i].objectId : i \in {j \in 1..Len(r) :
                  r[j].role = Franchisee /\ r[j].userId = userId}}
      rows == SelectSeq(f, LAMBDA row : row.id \in ids)
  IN  [i \in 1..Len(rows) |-> getFranchise(u, r, s, d, oi, rows[i])]

\* createStore(franchiseId, store): INSERT INTO store (franchiseId, name)
createStore(s, ids, franchiseId, name) ==
  LET sid == ids.store + 1
  IN  [store    |-> Append(s, [id |-> sid, franchiseId |-> franchiseId, name |-> name]),
       insertId |-> [ids EXCEPT !.store = sid],
       result   |-> [id |-> sid, franchiseId |-> franchiseId, name |-> name]]

\* ------------------------------------------------------------------ orderRouter
\* and franchiseRouter
\* a wiring that leaves POST /api/order without authenticateToken
requiresAuthButOrders(op) ==
  op \in {"addMenuItem", "getOrders", "getUserFranchises", "createFranchise",
          "deleteFranchise"}

\* the routes that are wired with authRouter.authenticateToken
requiresAuth(op) ==
  op \in {"addMenuItem", "getOrders", "createOrder", "getUserFranchises",
          "createFranchise", "deleteFranchise"}

\* authenticateToken sends 401 and the handler does not run
denied(op, req) == requiresAuth(op) /\ ~authenticated(req)

Unauthorized(op) == Answer(op, 401, "unauthorized", NoBody)

\* a guard that lets every caller through
holdsAdminAny(req) == TRUE

\* req.user.isRole(Role.Admin)
holdsAdmin(req) == isRole(req.token.roles, Admin)

\* the status the error handler answers with: err.statusCode ?? 500
statusOf(err) == IF err.statusCode = 0 THEN 500 ELSE err.statusCode

\* the answer to a request whose handler threw err
Thrown(op, err) == Answer(op, statusOf(err), err.message, NoBody)

\* PUT /api/order/menu
addMenuItemRoute(m, req, item) ==
  IF denied("addMenuItem", req)
  THEN [menu |-> m, answer |-> Unauthorized("addMenuItem")]
  ELSE IF ~holdsAdmin(req)
  THEN [menu |-> m, answer |-> Answer("addMenuItem", 403, "unable to add menu item", NoBody)]
  ELSE LET add == addMenuItem(m, item)
       IN  [menu |-> add.menu, answer |-> Answer("addMenuItem", 200, "", [menu |-> getMenu(add.menu)])]

\* GET /api/order
getOrdersRoute(d, oi, req, page) ==
  IF denied("getOrders", req) THEN Unauthorized("getOrders")
  ELSE Answer("getOrders", 200, "", getOrders(d, oi, req.token.id, page))

\* a handler that lists the franchises of userId for any caller
getUserFranchisesRouteOpen(u, r, f, s, d, oi, req, userId) ==
  IF denied("getUserFranchises", req) THEN Unauthorized("getUserFranchises")
  ELSE Answer("getUserFranchises", 200, "",
              [franchises |-> getUserFranchises(u, r, f, s, d, oi, userId)])

\* GET /api/franchise/:userId
getUserFranchisesRoute(u, r, f, s, d, oi, req, userId) ==
  IF denied("getUserFranchises", req) THEN Unauthorized("getUserFranchises")
  ELSE Answer("getUserFranchises", 200, "",
              [franchises |-> IF req.token.id = userId \/ holdsAdmin(req)
                              THEN getUserFranchises(u, r, f, s, d, oi, userId)
                              ELSE <<>>])

\* POST /api/franchise
createFranchiseRoute(u, r, f, ids, req, body, fault) ==
  LET same == [franchise |-> f, userRole |-> r, insertId |-> ids]
      cf   == createFranchise(u, r, f, ids, body, fault)
  IN  IF denied("createFranchise", req)
      THEN same @@ [answer |-> Unauthorized("createFranchise")]
      ELSE IF ~holdsAdmin(req)
      THEN same @@ [answer |-> Answer("createFranchise", 403,
                                      "unable to create a franchise", NoBody)]
      ELSE [franchise |-> cf.franchise, userRole |-> cf.userRole,
            insertId |-> cf.insertId,
            answer |-> IF cf.err # NoError THEN Thrown("createFranchise", cf.err)
                       ELSE Answer("createFranchise", 200, "", cf.result)]

\* DELETE /api/franchise/:franchiseId
deleteFranchiseRoute(s, r, f, req, franchiseId, fault) ==
  LET same == [store |-> s, userRole |-> r, franchise |-> f]
      df   == deleteFranchise(s, r, f, franchiseId, fault)
  IN  IF denied("deleteFranchise", req)
      THEN same @@ [answer |-> Unauthorized("deleteFranchise")]
      ELSE IF ~holdsAdmin(req)
      THEN same @@ [answer |-> Answer("deleteFranchise", 403,
                                      "unable to delete a franchise", NoBody)]
      ELSE [store |-> df.store, userRole |-> df.userRole, franchise |-> df.franchise,
            answer |-> IF df.err # NoError THEN Thrown("deleteFranchise", df.err)
                       ELSE Answer("deleteFranchise", 200, "franchise deleted", NoBody)]

\* ------------------------------------------------------------------ createOrder
\* what the factory call can come to: fetch rejects, the body does not
\* decode, or a response r with a body j
ReportUrls == {"report-a", "report-b"}

FactoryOutcomes ==
  {[kind |-> "threw", ok |-> FALSE, status |-> 0, jwt |-> None, reportUrl |-> None],
   [kind |-> "undecodable", ok |-> FALSE, status |-> 502, jwt |-> None,
    reportUrl |-> None]}
  \cup {[kind |-> "reply", ok |-> TRUE, status |-> 200, jwt |-> "factory-jwt",
         reportUrl |-> url] : url \in ReportUrls}
  \cup {[kind |-> "reply", ok |-> FALSE, status |-> 500, jwt |-> None,
         reportUrl |-> url] : url \in ReportUrls}

\* { ...order, id: orderId }, what addDinerOrder returns
orderOf(p) == [id |-> p.orderId] @@ p.body

\* factoryReqBody: { diner: { id, name, email }, order }
factoryReqBody(p) ==
  [diner |-> [id |-> p.user.id, email |-> p.user.email], order |-> orderOf(p)]

\* logger.logFactoryRequest(factoryUrl, 'POST', factoryReqBody, r.status, j)
factoryLogEntry(p, r) ==
  [url |-> "factory/api/order", method |-> "POST", reqBody |-> factoryReqBody(p),
   statusCode |-> r.status, resBody |-> [jwt |-> r.jwt, reportUrl |-> r.reportUrl]]

\* an answer without the report URL of the failed response
factoryAnswerNoReport(p, r) ==
  IF r.ok
  THEN Answer("createOrder", 200, "",
              [order |-> orderOf(p), jwt |-> r.jwt, reportUrl |-> r.reportUrl])
  ELSE Answer("createOrder", 500, "Failed to fulfill order at factory",
              [reportUrl |-> None])

\* an answer that hands back the bearer token of the request as jwt
factoryAnswerBearer(p, r) ==
  IF r.ok
  THEN Answer("createOrder", 200, "",
              [order |-> orderOf(p), jwt |-> "bearer", reportUrl |-> r.reportUrl])
  ELSE Answer("createOrder", 500, "Failed to fulfill order at factory",
              [reportUrl |-> r.reportUrl])

\* if (r.ok) res.send({ order, jwt: j.jwt, reportUrl: j.reportUrl })
\* else res.status(500).send({ message, reportUrl: j.reportUrl })
factoryAnswer(p, r) ==
  IF r.ok
  THEN Answer("createOrder", 200, "",
              [order |-> orderOf(p), jwt |-> r.jwt, reportUrl |-> r.reportUrl])
  ELSE Answer("createOrder", 500, "Failed to fulfill order at factory",
              [reportUrl |-> r.reportUrl])

\* a handler that does not wait for the item loop
loopDoneEarly(p) == TRUE

\* the item loop of addDinerOrder has run over every item
loopDone(p) == p.body.missing # "items" /\ p.k > Len(p.body.items)

\* the createOrder handler of a request, between two awaits: the payload
\* of its token, its body, where it stands, the id of its order header and
\* the item the loop is at
Placing(payload, body, pc, orderId, k) ==
  [user |-> payload, body |-> body, pc |-> pc, orderId |-> orderId, k |-> k]

\* a step of the order or franchise routes: the auth routes do nothing
Served == last' = Idle /\ UNCHANGED <<user, auth, now, connections, founding, signature>>

\* the handler throws err: the error handler answers, the handler is gone
Throw(p, err) ==
  /\ placing' = placing \ {p}
  /\ answer' = Thrown("createOrder", err)

\* POST /api/order up to its first await: authenticateToken,
\* metrics.totalOrders++, the call of DB.addDinerOrder.  At most `orders`
\* handlers start and at most `handlers` of them run at a time; two
\* handlers are told apart by what they hold (placing is a set), so a second
\* handler that holds the same token and body starts when the first has its
\* order id
CreateOrderWithin(orders, handlers, req, body) ==
  /\ req \in pending
  /\ pending' = pending \ {req}
  /\ Served
  /\ UNCHANGED <<userRole, franchise, menu, store, dinerOrder, orderItem, insertId, factory>>
  /\ IF denied("createOrder", req)
     THEN /\ answer' = Unauthorized("createOrder")
          /\ UNCHANGED <<metrics, placing>>
     ELSE /\ metrics.totalOrders < orders
          /\ Cardinality(placing) < handlers
          /\ Placing(req.token, body, "header", 0, 0) \notin placing
          /\ metrics' = [metrics EXCEPT !.totalOrders = @ + 1]
          /\ placing' = placing \cup {Placing(req.token, body, "header", 0, 0)}
          /\ answer' = NoAnswer

\* POST /api/order within the bounds of the order workflow
CreateOrder(req, body) == CreateOrderWithin(MaxOrders, MaxPlacing, req, body)

\* addDinerOrder: INSERT INTO dinerOrder.  A missing franchiseId is an
\* undefined bind parameter: the statement throws
InsertOrder(p, fault) ==
  /\ p \in placing /\ p.pc = "header"
  /\ Served
  /\ UNCHANGED <<userRole, franchise, pending, menu, store, orderItem, insertId,
                 metrics, factory>>
  /\ IF fault \/ p.body.missing = "franchiseId"
     THEN Throw(p, QueryFailed) /\ UNCHANGED dinerOrder
     ELSE /\ dinerOrder' = insertDinerOrder(dinerOrder, p.user.id, p.body)
          /\ placing' = (placing \ {p}) \cup
                        {Placing(p.user, p.body, "items", Len(dinerOrder) + 1, 1)}
          /\ answer' = NoAnswer

\* addDinerOrder: one turn of the loop, getID on the menu and INSERT INTO
\* orderItem.  Missing items are not iterable: the loop throws
InsertItem(p, fault) ==
  /\ p \in placing /\ p.pc = "items" /\ ~loopDone(p)
  /\ Served
  /\ UNCHANGED <<userRole, franchise, pending, menu, store, dinerOrder, insertId,
                 metrics, factory>>
  /\ IF p.body.missing = "items"
     THEN Throw(p, Error("order.items is not iterable", 0)) /\ UNCHANGED orderItem
     ELSE LET item   == p.body.items[p.k]
              menuId == getMenuID(menu, item.menuId)
          IN  IF menuId = 0 THEN Throw(p, noIdFound) /\ UNCHANGED orderItem
              ELSE IF fault THEN Throw(p, QueryFailed) /\ UNCHANGED orderItem
              ELSE /\ orderItem' = insertOrderItem(orderItem, p.orderId, menuId, item)
                   /\ placing' = (placing \ {p}) \cup
                                 {Placing(p.user, p.body, "items", p.orderId, p.k + 1)}
                   /\ answer' = NoAnswer

\* a handler that writes its own pizzas and revenue over the counters
\* instead of adding to them
PersistedOverwriting(p) ==
  /\ p \in placing /\ p.pc = "items" /\ loopDone(p)
  /\ Served
  /\ UNCHANGED <<userRole, franchise, pending, menu, store, dinerOrder, orderItem,
                 insertId>>
  /\ metrics' = [metrics EXCEPT
                   !.successfulOrders = Len(p.body.items),
                   !.revenue = SumOf(p.body.items, Len(p.body.items))]
  /\ factory' = [factory EXCEPT !.calls = Append(@, factoryReqBody(p))]
  /\ placing' = (placing \ {p}) \cup
                {Placing(p.user, p.body, "factory", p.orderId, p.k)}
  /\ answer' = NoAnswer

\* addDinerOrder has returned: the pizzas and the revenue are counted and the
\* order is sent to the factory
Persisted(p) ==
  /\ p \in placing /\ p.pc = "items" /\ loopDone(p)
  /\ Served
  /\ UNCHANGED <<userRole, franchise, pending, menu, store, dinerOrder, orderItem,
                 insertId>>
  /\ metrics' = [metrics EXCEPT
                   !.successfulOrders = @ + Len(p.body.items),
                   !.revenue = @ + SumOf(p.body.items, Len(p.body.items))]
  /\ factory' = [factory EXCEPT !.calls = Append(@, factoryReqBody(p))]
  /\ placing' = (placing \ {p}) \cup
                {Placing(p.user, p.body, "factory", p.orderId, p.k)}
  /\ answer' = NoAnswer

\* the factory call comes back: fetch or r.json() throws, or the call is
\* logged and answered
Fulfil(p, r) ==
  /\ p \in placing /\ p.pc = "factory"
  /\ Served
  /\ UNCHANGED <<userRole, franchise, pending, menu, store, dinerOrder, orderItem,
                 insertId, metrics>>
  /\ IF r.kind = "threw" THEN Throw(p, Error("fetch failed", 0)) /\ UNCHANGED factory
     ELSE IF r.kind = "undecodable"
     THEN Throw(p, Error("Unexpected token in JSON", 0)) /\ UNCHANGED factory
     ELSE /\ factory' = [factory EXCEPT !.log = Append(@, factoryLogEntry(p, r))]
          /\ placing' = placing \ {p}
          /\ answer' = factoryAnswer(p, r)

\* ------------------------------------------------------------------ the other
\* order and franchise routes
AddMenuItem(req, item) ==
  LET out == addMenuItemRoute(menu, req, item)
  IN  /\ req \in pending
      /\ Len(out.menu) <= MaxMenu
      /\ pending' = pending \ {req}
      /\ Served
      /\ menu' = out.menu
      /\ answer' = out.answer
      /\ UNCHANGED <<userRole, franchise, store, dinerOrder, orderItem, insertId,
                     metrics, factory, placing>>

GetOrders(req, page) ==
  /\ req \in pending
  /\ pending' = pending \ {req}
  /\ Served
  /\ answer' = getOrdersRoute(dinerOrder, orderItem, req, page)
  /\ UNCHANGED <<userRole, franchise>>
  /\ UNCHANGED routeVars

GetUserFranchises(req, userId) ==
  /\ req \in pending
  /\ pending' = pending \ {req}
  /\ Served
  /\ answer' = getUserFranchisesRoute(user, userRole, franchise, store, dinerOrder,
                                      orderItem, req, userId)
  /\ UNCHANGED <<userRole, franchise>>
  /\ UNCHANGED routeVars

CreateFranchise(req, body, fault) ==
  LET out == createFranchiseRoute(user, userRole, franchise, insertId, req, body, fault)
  IN  /\ req \in pending
      /\ out.insertId.franchise <= MaxFranchises
      /\ pending' = pending \ {req}
      /\ Served
      /\ franchise' = out.franchise
      /\ userRole' = out.userRole
      /\ insertId' = out.insertId
      /\ answer' = out.answer
      /\ UNCHANGED <<menu, store, dinerOrder, orderItem, metrics, factory, placing>>

DeleteFranchise(req, franchiseId, fault) ==
  LET out == deleteFranchiseRoute(store, userRole, franchise, req, franchiseId, fault)
  IN  /\ req \in pending
      /\ pending' = pending \ {req}
      /\ Served
      /\ store' = out.store
      /\ userRole' = out.userRole
      /\ franchise' = out.franchise
      /\ answer' = out.answer
      /\ UNCHANGED <<menu, dinerOrder, orderItem, insertId, metrics, factory, placing>>

\* DB.createStore called directly (no route of this service calls it)
CreateStore(franchiseId, name) ==
  LET out == createStore(store, insertId, franchiseId, name)
  IN  /\ insertId.store < MaxStores
      /\ Served
      /\ store' = out.store
      /\ insertId' = out.insertId
      /\ answer' = NoAnswer
      /\ UNCHANGED <<userRole, franchise, pending, menu, dinerOrder, orderItem, metrics,
                     factory, placing>>

\* DB.addMenuItem called directly
AddMenu(item) ==
  /\ Len(menu) < MaxMenu
  /\ menu' = addMenuItem(menu, item).menu
  /\ Served
  /\ answer' = NoAnswer
  /\ UNCHANGED <<userRole, franchise, pending, store, dinerOrder, orderItem, insertId,
                 metrics, factory, placing>>

\* the tokens the clients of the order and franchise routes present: none,
\* or one that has a session
BearerTokens == {NoToken} \cup ActiveTokens

\* the order workflow: diners register and log in, the menu is filled
\* through DB.addMenuItem, orders are placed and listed
OrderNext ==
  \/ Register("A", "e2", "p2")
  \/ Login("e2", "p2")
  \/ \E token \in ActiveTokens : LogoutUser(token)
  \/ \E token \in BearerTokens, fault \in BOOLEAN : Request(token, fault)
  \/ \E item \in MenuItems : AddMenu(item)
  \/ \E req \in pending, page \in Opt(Pages) : GetOrders(req, page)
  \/ \E req \in pending, body \in OrderBodies : CreateOrder(req, body)
  \/ \E p \in placing, fault \in BOOLEAN : InsertOrder(p, fault)
  \/ \E p \in placing, fault \in BOOLEAN : InsertItem(p, fault)
  \/ \E p \in placing : Persisted(p)
  \/ \E p \in placing, r \in FactoryOutcomes : Fulfil(p, r)

OrderSpec == Init /\ [][OrderNext]_vars

\* the order bodies of the service as a whole: one item that resolves, one
\* that does not
FewBodies == {body \in OrderBodies : Len(body.items) = 1 /\ body.items[1].price = 2}

\* the service with every protected route.  The administrator (e1) is
\* added through DB.addUser before anything else, the diner (e2) registers
ServiceNext ==
  \/ \E roles \in SeedRoles : user = <<>> /\ AddUser("A", "e1", "p1", roles)
  \/ Register("A", "e2", "p2")
  \/ \E who \in {<<"e1", "p1">>, <<"e2", "p2">>} : Login(who[1], who[2])
  \/ \E token \in ActiveTokens : LogoutUser(token)
  \/ \E token \in BearerTokens, fault \in BOOLEAN : Request(token, fault)
  \/ \E req \in pending : Logout(req)
  \/ \E req \in pending, userId \in 1..MaxUsers : UpdateUser(req, userId, None, None)
  \/ \E req \in pending, item \in MenuItems : AddMenuItem(req, item)
  \/ \E req \in pending, page \in Opt(Pages) : GetOrders(req, page)
  \/ \E req \in pending, userId \in 1..MaxUsers : GetUserFranchises(req, userId)
  \/ \E req \in pending, body \in FranchiseBodies :
       \E fault \in FaultsIn(1 + Len(body.admins)) : CreateFranchise(req, body, fault)
  \/ \E req \in pending, franchiseId \in 1..MaxFranchises, fault \in FaultsIn(3) :
       DeleteFranchise(req, franchiseId, fault)
  \/ \E franchiseId \in 1..MaxFranchises, name \in StoreNames :
       CreateStore(franchiseId, name)
  \/ \E req \in pending, body \in FewBodies : CreateOrder(req, body)
  \/ \E p \in placing, fault \in BOOLEAN : InsertOrder(p, fault)
  \/ \E p \in placing, fault \in BOOLEAN : InsertItem(p, fault)
  \/ \E p \in placing : Persisted(p)
  \/ \E p \in placing, r \in FactoryOutcomes : Fulfil(p, r)

ServiceSpec == Init /\ [][ServiceNext]_vars

\* ------------------------------------------------------------------ C11
\* the counters and the factory's record, which no refused request touches
Counters == <<metrics, factory, placing, insertId>>

\* the response of the step is 401 'unauthorized', on the order and
\* franchise routes or on the auth routes (whose response the observer sees
\* when no other request is in flight)
Refused(req) ==
  \/ answer'.status = 401 /\ answer'.message = "unauthorized" /\ answer'.body = NoBody
  \/ /\ answer' = NoAnswer
     /\ pending' = {} => (last'.status = 401 /\ last'.op \in {"logout", "update"})
     /\ logout(auth, req).resp.status = 401
     /\ logout(auth, req).resp.msg = "unauthorized"
     /\ \A userId \in 1..MaxUsers : update(user, userRole, req, userId, None, None).resp.status = 401
     /\ \A userId \in 1..MaxUsers : update(user, userRole, req, userId, None, None).resp.msg = "unauthorized"

\* C11: a request without an identity (no token, a token that does not
\* verify, a token without a session, a failed lookup) that reaches any
\* protected route is answered 401 {message: 'unauthorized'}; the handler
\* does not run: no table, no metrics counter and no factory call changes
UnauthorizedIs401 ==
  [][\A req \in pending :
       (~authenticated(req) /\ req \notin pending')
       => /\ Refused(req)
          /\ UNCHANGED Tables
          /\ UNCHANGED Counters]_vars

\* an order was stored, and a later POST /api/order without identity was
\* refused
UnauthorizedIs401Witness ==
  /\ answer = Unauthorized("createOrder")
  /\ dinerOrder # <<>>
  /\ metrics.totalOrders = 1

\* ------------------------------------------------------------------ C12
\* the message of the 403 of each Admin-only mutation
ForbiddenMessage ==
  [op \in {"createFranchise", "deleteFranchise", "addMenuItem"} |->
     IF op = "createFranchise" THEN "unable to create a franchise"
     ELSE IF op = "deleteFranchise" THEN "unable to delete a franchise"
     ELSE "unable to add menu item"]

\* C12: POST /api/franchise, DELETE /api/franchise/:franchiseId and
\* PUT /api/order/menu, called with an identity that does not hold the
\* Admin role, answer 403 with the message of the operation and leave
\* franchise, store, userRole and menu as they were
AdminOnlyIs403 ==
  [][\A req \in pending :
       ( /\ authenticated(req) /\ ~isRole(req.token.roles, Admin)
         /\ req \notin pending'
         /\ answer'.op \in DOMAIN ForbiddenMessage )
       => /\ answer'.status = 403
          /\ answer'.message = ForbiddenMessage[answer'.op]
          /\ UNCHANGED <<franchise, store, userRole, menu>>]_vars

\* a diner was refused the deletion of a franchise that has a store
AdminOnlyIs403Witness ==
  /\ answer = Answer("deleteFranchise", 403, "unable to delete a franchise", NoBody)
  /\ franchise # <<>>
  /\ store # <<>>

\* ------------------------------------------------------------------ C13
\* the rows of order orderId, header and items
rowsOfOrder(d, oi, orderId) ==
  [header |-> {i \in 1..Len(d) : d[i].id = orderId},
   items  |-> {i \in 1..Len(oi) : oi[i].orderId = orderId}]

\* C13: when an item of the order names a menu id that resolves to no
\* menu row, placing the order fails and no dinerOrder row and no orderItem
\* row of that request is left in the tables
UnknownMenuLeavesNoRows ==
  [][\A p \in placing :
       (p \notin placing' /\ answer'.op = "createOrder" /\ answer'.message = noIdFound.message)
       => /\ answer'.status >= 400
          /\ rowsOfOrder(dinerOrder', orderItem', p.orderId).header = {}
          /\ rowsOfOrder(dinerOrder', orderItem', p.orderId).items = {}]_vars

\* ------------------------------------------------------------------ C14
\* the handler p is in the item loop at an item whose menu id resolves to
\* no menu row
AtUnknownMenu(p) ==
  /\ p.pc = "items" /\ p.body.missing = "" /\ p.k <= Len(p.body.items)
  /\ getMenuID(menu, p.body.items[p.k].menuId) = 0

HeaderWithAllItems ==
  [][\A p \in placing :
       rowsOfOrder(dinerOrder', orderItem', p.orderId).header # {}
       => Cardinality(rowsOfOrder(dinerOrder', orderItem', p.orderId).items)
            = Len(p.body.items)]_vars

\* ------------------------------------------------------------------ C16
\* the factory call of handler p has just been answered with response
\* status `status`: the entry logged in this step
Replied(p) ==
  /\ p.pc = "factory" /\ p \notin placing'
  /\ Len(factory'.log) = Len(factory.log) + 1

\* the order of handler p is stored, header and every item
Stored(d, oi, p) ==
  /\ Cardinality(rowsOfOrder(d, oi, p.orderId).header) = 1
  /\ Cardinality(rowsOfOrder(d, oi, p.orderId).items) = Len(p.body.items)

\* C16: when the factory answers with a non-ok response, POST /api/order
\* answers 500 with the reportUrl of that response, and the order stored
\* earlier in the request is still there, header and items
FactoryFailureKeepsOrder ==
  [][\A p \in placing :
       LET j == factory'.log[Len(factory'.log)]
       IN  (Replied(p) /\ j.statusCode \notin 200..299)
           => /\ answer'.status = 500
              /\ answer'.message = "Failed to fulfill order at factory"
              /\ answer'.body = [reportUrl |-> j.resBody.reportUrl]
              /\ UNCHANGED <<dinerOrder, orderItem>>
              /\ Stored(dinerOrder', orderItem', p)]_vars

\* an order of two items was refused by the factory and is still stored
FactoryFailureKeepsOrderWitness ==
  /\ answer.op = "createOrder" /\ answer.status = 500
  /\ answer.body = [reportUrl |-> "report-b"]
  /\ Len(dinerOrder) = 1 /\ Len(orderItem) = 2
  /\ placing = {}

\* ------------------------------------------------------------------ C17
\* C17: when the factory answers with an ok response, POST /api/order
\* answers 200 with {order, jwt, reportUrl}: order is the request's order
\* with the id of its stored header, jwt and reportUrl are the values of the
\* factory's response
FactorySuccessAnswer ==
  [][\A p \in placing :
       LET j == factory'.log[Len(factory'.log)]
       IN  (Replied(p) /\ j.statusCode \in 200..299)
           => /\ answer'.status = 200
              /\ answer'.body.order = [id |-> p.orderId] @@ p.body
              /\ rowsOfOrder(dinerOrder', orderItem', answer'.body.order.id).header # {}
              /\ answer'.body.jwt = j.resBody.jwt
              /\ answer'.body.reportUrl = j.resBody.reportUrl
              /\ DOMAIN answer'.body = {"order", "jwt", "reportUrl"}]_vars

\* an order of two items was fulfilled and answered with the factory's jwt
FactorySuccessAnswerWitness ==
  /\ answer.op = "createOrder" /\ answer.status = 200
  /\ DOMAIN answer.body = {"order", "jwt", "reportUrl"}
  /\ answer.body.jwt = "factory-jwt"
  /\ Len(answer.body.order.items) = 2
  /\ Len(orderItem) = 2

\* ------------------------------------------------------------------ C18
\* the factory call of handler p ends in this step, with a response or with
\* an exception
Attempted(p) == p.pc = "factory" /\ p \notin placing'

\* C18: a factory call that itself fails (fetch throws, or the body of the
\* response does not decode) ends like a non-ok response, with the
\* 'fulfillment failed' answer, and the stored order stays
FailedCallIsFailedFulfillment ==
  [][\A p \in placing :
       Attempted(p)
       => /\ \/ answer'.status = 200
             \/ /\ answer'.status = 500
                /\ answer'.message = "Failed to fulfill order at factory"
          /\ Stored(dinerOrder', orderItem', p)]_vars

\* ------------------------------------------------------------------ C19
\* C19: every factory call is logged exactly once, with method, URL, request
\* body, response body and status, in the step that sends the response or
\* before it, whether the call ends in an ok response, a non-ok response or
\* a failure
EveryAttemptLogged ==
  [][\A p \in placing :
       Attempted(p)
       => /\ Len(factory'.log) = Len(factory.log) + 1
          /\ factory'.log[Len(factory'.log)].reqBody = factoryReqBody(p)
          /\ factory'.log[Len(factory'.log)].method = "POST"
          /\ Len(factory'.log) = Len(factory'.calls) - Cardinality({q \in placing' : q.pc = "factory"})]_vars

\* ------------------------------------------------------------------ C20
\* C20: the factory is called only by a handler whose order is stored, header
\* and every item; a handler that fails before that (validation or a
\* statement of addDinerOrder) ends with a 500-class answer and has made no
\* factory call
FactoryAfterPersistence ==
  [][/\ factory'.calls # factory.calls
        => \E p \in placing :
             /\ p.pc = "items"
             /\ Stored(dinerOrder, orderItem, p)
             /\ factory'.calls = Append(factory.calls, factoryReqBody(p))
     /\ \A p \in placing :
          (p.pc \in {"header", "items"} /\ placing' = placing \ {p})
          => /\ answer'.op = "createOrder" /\ answer'.status \in 500..599
             /\ factory'.calls = factory.calls
             /\ \A i \in 1..Len(factory.calls) :
                  factory.calls[i].order.id # p.orderId \/ p.orderId = 0]_vars

\* an order of two items is stored and has been sent to the factory, which
\* has not answered yet
FactoryAfterPersistenceWitness ==
  /\ Len(factory.calls) = 1
  /\ Len(orderItem) = 2
  /\ \E p \in placing : p.pc = "factory" /\ Stored(dinerOrder, orderItem, p)

\* ------------------------------------------------------------------ the
\* franchises: listing, stores, deletion
\* a getFranchises that gives everyone the view of an Admin
getFranchisesEnriched(u, r, f, s, d, oi, admin) ==
  [i \in 1..Len(f) |-> getFranchise(u, r, s, d, oi, f[i])]

\* getFranchises(authUser): every franchise, through getFranchise for an
\* Admin, with its stores (id, name) for anyone else
getFranchises(u, r, f, s, d, oi, admin) ==
  [i \in 1..Len(f) |->
     IF admin THEN getFranchise(u, r, s, d, oi, f[i])
     ELSE LET sr == SelectSeq(s, LAMBDA x : x.franchiseId = f[i].id)
          IN  [id |-> f[i].id, name |-> f[i].name,
               stores |-> [k \in 1..Len(sr) |-> [id |-> sr[k].id, name |-> sr[k].name]]]]

\* GET /api/franchise: no authenticateToken, req.user is there or not
getFranchisesRoute(u, r, f, s, d, oi, req) ==
  Answer("getFranchises", 200, "",
         [franchises |-> getFranchises(u, r, f, s, d, oi,
                                       authenticated(req) /\ holdsAdmin(req))])

\* deleteStore(franchiseId, storeId): DELETE FROM store WHERE franchiseId=?
\* AND id=?
deleteStore(s, franchiseId, storeId) ==
  SelectSeq(s, LAMBDA row : ~(row.franchiseId = franchiseId /\ row.id = storeId))

GetFranchises(req) ==
  /\ req \in pending
  /\ pending' = pending \ {req}
  /\ Served
  /\ answer' = getFranchisesRoute(user, userRole, franchise, store, dinerOrder,
                                  orderItem, req)
  /\ UNCHANGED <<userRole, franchise>>
  /\ UNCHANGED routeVars

\* DB.deleteStore called directly (no route of this service calls it)
DeleteStore(franchiseId, storeId) ==
  /\ store' = deleteStore(store, franchiseId, storeId)
  /\ store' # store
  /\ Served
  /\ answer' = NoAnswer
  /\ UNCHANGED <<userRole, franchise, pending, menu, dinerOrder, orderItem, insertId,
                 metrics, factory, placing>>

\* the franchise bodies of the franchise routes: no admin, the diner, the
\* administrator and the diner
AdminLists == {<<>>, <<"e2">>, <<"e1", "e2">>}

\* a body whose two items name the same menu row at two prices
TwoPrices ==
  {body \in OrderBodies :
     /\ Len(body.items) = 2
     /\ \A k \in 1..2 : body.items[k].menuId = 1 /\ body.items[k].price = k}

\* the franchise routes over class DB: the administrator (e1) is added
\* through DB.addUser before anything else, the diner (e2) registers,
\* franchises and stores come and go; no order is placed
FranchiseNext ==
  \/ \E roles \in SeedRoles : user = <<>> /\ AddUser("A", "e1", "p1", roles)
  \/ Register("A", "e2", "p2")
  \/ \E who \in {<<"e1", "p1">>, <<"e2", "p2">>} : Login(who[1], who[2])
  \/ \E token \in ActiveTokens : LogoutUser(token)
  \/ \E token \in BearerTokens, fault \in BOOLEAN : Request(token, fault)
  \/ \E req \in pending, userId \in 1..MaxUsers : UpdateUser(req, userId, "e2", "p2")
  \/ \E req \in pending : GetFranchises(req)
  \/ \E req \in pending, userId \in 1..MaxUsers : GetUserFranchises(req, userId)
  \/ \E req \in pending, admins \in AdminLists :
       \E fault \in FaultsIn(1 + Len(admins)) :
         CreateFranchise(req, [name |-> "pizzaPocket", admins |-> admins], fault)
  \/ \E req \in pending, franchiseId \in 0..MaxFranchises, fault \in FaultsIn(3) :
       DeleteFranchise(req, franchiseId, fault)
  \/ \E franchiseId \in 1..MaxFranchises, name \in StoreNames :
       CreateStore(franchiseId, name)
  \/ \E franchiseId \in 1..MaxFranchises, storeId \in 1..MaxStores :
       DeleteStore(franchiseId, storeId)

FranchiseSpec == Init /\ [][FranchiseNext]_vars

\* the franchise routes together with the order workflow: a store has
\* orders, and so revenue, while franchises and stores come and go
HistoryNext ==
  \/ \E roles \in SeedRoles : user = <<>> /\ AddUser("A", "e1", "p1", roles)
  \/ Register("A", "e2", "p2")
  \/ \E who \in {<<"e1", "p1">>, <<"e2", "p2">>} : Login(who[1], who[2])
  \/ \E token \in ActiveTokens : LogoutUser(token)
  \/ \E token \in BearerTokens, fault \in BOOLEAN : Request(token, fault)
  \/ \E req \in pending : Logout(req)
  \/ \E req \in pending, userId \in 1..MaxUsers : UpdateUser(req, userId, None, "p2")
  \/ \E req \in pending : GetFranchises(req)
  \/ \E req \in pending, page \in Opt(Pages) : GetOrders(req, page)
  \/ \E req \in pending, admins \in {<<>>, <<"e2">>} :
       CreateFranchise(req, [name |-> "pizzaPocket", admins |-> admins],
                       1 + Len(admins))
  \/ \E req \in pending, franchiseId \in 1..MaxFranchises, fault \in FaultsIn(3) :
       DeleteFranchise(req, franchiseId, fault)
  \/ \E franchiseId \in 1..MaxFranchises, name \in StoreNames :
       CreateStore(franchiseId, name)
  \/ \E franchiseId \in 1..MaxFranchises, storeId \in 1..MaxStores :
       DeleteStore(franchiseId, storeId)
  \/ \E item \in MenuItems : AddMenu(item)
  \/ \E req \in pending, body \in TwoPrices : CreateOrder(req, body)
  \/ \E p \in placing, fault \in BOOLEAN : InsertOrder(p, fault)
  \/ \E p \in placing, fault \in BOOLEAN : InsertItem(p, fault)
  \/ \E p \in placing : Persisted(p)
  \/ \E p \in placing, r \in FactoryOutcomes : Fulfil(p, r)

HistorySpec == Init /\ [][HistoryNext]_vars

\* ------------------------------------------------------------------ C21
\* what deleteFranchise works on
FranchiseTables == <<store, userRole, franchise>>

\* C21: deleteFranchise is all-or-nothing: a DELETE /api/franchise/:id
\* either removes the franchise, its stores and its role assignments
\* together, or, when one of the three deletions fails, answers 500
\* 'unable to delete franchise' and leaves all of them as they were; no
\* step commits only some of the deletions
DeleteAllOrNothing ==
  [][answer'.op = "deleteFranchise"
     => \/ /\ answer'.status = 200
           /\ \E franchiseId \in 0..MaxFranchises :
                FranchiseTables' =
                  <<deleting(store, userRole, franchise, franchiseId, 3).store,
                    deleting(store, userRole, franchise, franchiseId, 3).userRole,
                    deleting(store, userRole, franchise, franchiseId, 3).franchise>>
        \/ /\ answer'.status = 500
           /\ answer'.message = "unable to delete franchise"
           /\ UNCHANGED FranchiseTables
        \/ /\ answer'.status \in {401, 403}
           /\ UNCHANGED FranchiseTables]_vars

\* the deletion of a franchise with a store and a franchisee has failed
\* and all three are still there
DeleteAllOrNothingWitness ==
  /\ answer = Thrown("deleteFranchise", Error("unable to delete franchise", 500))
  /\ franchise # <<>>
  /\ \E i \in 1..Len(store) : store[i].franchiseId = franchise[1].id
  /\ \E i \in 1..Len(userRole) :
       userRole[i].role = Franchisee /\ userRole[i].objectId = franchise[1].id

\* ------------------------------------------------------------------ C22
\* no row of the listing names franchise franchiseId
Unlisted(listing, franchiseId) ==
  \A i \in 1..Len(listing) : listing[i].id # franchiseId

\* C22: after a deleteFranchise(f) that did not fail, f is in no franchise
\* listing (of an Admin, of anyone else, of any user's franchises), no store
\* has franchiseId f and no role assignment has object id f; this holds as
\* well, without error, when there was no franchise f
DeleteRemovesAll ==
  [][\A req \in pending, franchiseId \in 0..MaxFranchises :
       ( /\ authenticated(req) /\ isRole(req.token.roles, Admin)
         /\ DeleteFranchise(req, franchiseId, 3) )
       => /\ answer'.status = 200 /\ answer'.message = "franchise deleted"
          /\ \A admin \in BOOLEAN :
               Unlisted(getFranchises(user', userRole', franchise', store',
                                      dinerOrder', orderItem', admin), franchiseId)
          /\ \A userId \in 1..MaxUsers :
               Unlisted(getUserFranchises(user', userRole', franchise', store',
                                          dinerOrder', orderItem', userId), franchiseId)
          /\ \A i \in 1..Len(store') : store'[i].franchiseId # franchiseId
          /\ \A i \in 1..Len(userRole') : userRole'[i].objectId # franchiseId]_vars

\* a franchise and a store were created, and after the deletion of the
\* franchise no franchise, store or franchisee is left
DeleteRemovesAllWitness ==
  /\ answer = Answer("deleteFranchise", 200, "franchise deleted", NoBody)
  /\ insertId = [franchise |-> 1, store |-> 1]
  /\ franchise = <<>> /\ store = <<>>
  /\ \A i \in 1..Len(userRole) : userRole[i].role # Franchisee
  /\ Len(user) = 2

\* ------------------------------------------------------------------ C23
\* the role assignments that userRole' has and userRole had not, for user
\* userId as Franchisee of franchise franchiseId
NewFranchisee(userId, franchiseId) ==
  {k \in (Len(userRole) + 1)..Len(userRole') :
     userRole'[k] = [userId |-> userId, role |-> Franchisee, objectId |-> franchiseId]}

Reduced(row) ==
  /\ DOMAIN row = {"id", "name", "stores"}
  /\ \A k \in 1..Len(row.stores) : DOMAIN row.stores[k] = {"id", "name"}

FranchisesOf(userId) ==
  LET mine == SelectSeq(franchise, LAMBDA row :
                \E k \in 1..Len(userRole) :
                  userRole[k] = [userId |-> userId, role |-> Franchisee,
                                 objectId |-> row.id])
  IN  [i \in 1..Len(mine) |->
         getFranchise(user, userRole, store, dinerOrder, orderItem, mine[i])]

\* C25: GET /api/franchise/:userId answers 200 with the franchises of
\* userId, enriched, when the caller is userId or holds Admin, and with the
\* empty list for any other caller with an identity and for a user without
\* a Franchisee assignment
UserFranchisesOwnerOrAdmin ==
  [][\A req \in pending, userId \in 1..MaxUsers :
       (authenticated(req) /\ GetUserFranchises(req, userId))
       => /\ answer'.status = 200
          /\ answer'.body.franchises =
               IF req.token.id = userId \/ isRole(req.token.roles, Admin)
               THEN FranchisesOf(userId) ELSE <<>>
          /\ (\A k \in 1..Len(userRole) :
                ~(userRole[k].userId = userId /\ userRole[k].role = Franchisee))
             => answer'.body.franchises = <<>>]_vars

\* the franchise of a franchisee was listed with its admin and its store
UserFranchisesOwnerOrAdminWitness ==
  /\ answer.op = "getUserFranchises" /\ answer.status = 200
  /\ Len(answer.body.franchises) = 1
  /\ Len(answer.body.franchises[1].admins) >= 1
  /\ Len(answer.body.franchises[1].stores) = 1

\* ------------------------------------------------------------------ C26
\* C26: in every reachable state every user of the user table has at least
\* one role assignment
EveryUserHasRole ==
  \A i \in 1..Len(user) :
    \E k \in 1..Len(userRole) : userRole[k].userId = user[i].id

\* ------------------------------------------------------------------ C27
\* C27: in every reachable state no two rows of the user table have the
\* same email
EmailUnique ==
  \A i, j \in 1..Len(user) : user[i].email = user[j].email => i = j

\* ------------------------------------------------------------------ C28
\* the table is as it was, with rows added at its end or none
Extends(after, before) ==
  /\ Len(after) >= Len(before)
  /\ SubSeq(after, 1, Len(before)) = before

\* every order getOrders lists for the diner before the step is listed
\* after it, with the items it had (and those added since) unchanged
SameHistory(userId) ==
  LET before == getOrders(dinerOrder, orderItem, userId, None).orders
      after  == getOrders(dinerOrder', orderItem', userId, None).orders
  IN  \A i \in 1..Len(before) :
        /\ i <= Len(after)
        /\ after[i].id = before[i].id
        /\ Extends(after[i].items, before[i].items)
        /\ (\A p \in placing : p.orderId # before[i].id) => after[i] = before[i]

\* C28: a stored order is never undone or altered: no step of the service
\* (menu, franchise and store changes, updateUser, logout, a failed
\* fulfillment) deletes a dinerOrder or orderItem row or changes a stored
\* description or price, and getOrders goes on returning the same items
\* and prices for it
OrdersAreKept ==
  [][/\ Extends(dinerOrder', dinerOrder)
     /\ Extends(orderItem', orderItem)
     /\ \A userId \in 1..MaxUsers : SameHistory(userId)]_vars

\* an order of two items is stored, the factory call has failed, and
\* the franchise and the store it was placed at are gone
OrdersAreKeptWitness ==
  /\ Len(dinerOrder) = 1 /\ Len(orderItem) = 2
  /\ orderItem[1].price # orderItem[2].price
  /\ franchise = <<>> /\ store = <<>>
  /\ insertId = [franchise |-> 1, store |-> 1]
  /\ placing = {}
  /\ factory.log = <<>>

\* ------------------------------------------------------------------ the
\* accounts: users come to exist, log in and update themselves, with the
\* emails a client may send
AccountNext ==
  \/ \E roles \in SeedRoles : AddUser("A", "e1", "p1", roles)
  \/ Register("A", "e2", "p2")
  \/ \E who \in {<<"e1", "p1">>, <<"e2", "p2">>} : Login(who[1], who[2])
  \/ \E token \in ActiveTokens : LogoutUser(token)
  \/ \E token \in BearerTokens, fault \in BOOLEAN : Request(token, fault)
  \/ \E req \in pending, userId \in 1..MaxUsers, email \in {"e2", Injected},
        password \in Opt({"p2"}) : UpdateUser(req, userId, email, password)

AccountSpec == Init /\ [][AccountNext]_vars

\* ------------------------------------------------------------------ C29
\* C29: updateUser changes only the email and the password of the user whose
\* id is the target id: the id, the name and the role assignments of the
\* target, the row of every other user and the session store are as before
UpdateChangesOnlyTarget ==
  [][\A req \in pending, userId \in 1..MaxUsers, email \in {"e2", Injected},
        password \in Opt({"p2"}) :
       UpdateUser(req, userId, email, password)
       => /\ Len(user') = Len(user)
          /\ \A i \in 1..Len(user) :
               /\ user'[i].id = user[i].id
               /\ user'[i].name = user[i].name
               /\ user[i].id # userId => user'[i] = user[i]
          /\ UNCHANGED <<userRole, auth>>]_vars

\* ---------------------------------------------------------------------
\* The connections of class DB. Every method of the class starts with
\* `const connection = await this.getConnection()` and runs its statements in
\* try { ... } finally { connection.end() }.

\* the methods of class DB that take a connection
DbMethods ==
  {"getMenu", "addMenuItem", "addUser", "getUser", "updateUser", "loginUser",
   "isLoggedIn", "logoutUser", "getOrders", "addDinerOrder", "createFranchise",
   "deleteFranchise", "getFranchises", "getUserFranchises", "getFranchise",
   "createStore", "deleteStore"}

\* what _getConnection can do: mysql.createConnection rejects; the
\* connection is made and `USE <database>` rejects; both succeed
ConnectOutcomes == {"refused", "no database", "connected"}

\* the methods in flight at once
MaxCalls == 2

\* the connections open at once
MaxConnections == 3

\* _getConnection: createConnection, then the USE statement. The connection
\* that createConnection made is returned to the method only if the USE
\* statement succeeds; nothing in _getConnection ends it when USE throws
getConnection(c, method, outcome) ==
  CASE outcome = "refused" -> c
    [] outcome = "no database" -> [c EXCEPT !.open = @ + 1]
    [] outcome = "connected" -> [open |-> c.open + 1, calls |-> c.calls \cup {method}]

\* finally { connection.end() }: the method returns or throws
end(c, method) == [open |-> c.open - 1, calls |-> c.calls \ {method}]

\* a method of class DB is called and awaits getConnection
GetConnection(method, outcome) ==
  /\ method \notin connections.calls
  /\ Cardinality(connections.calls) < MaxCalls
  /\ connections.open < MaxConnections
  /\ connections' = getConnection(connections, method, outcome)
  /\ answer' = NoAnswer
  /\ last' = Idle
  /\ UNCHANGED <<user, userRole, auth, franchise, now, pending, menu, store, dinerOrder,
                 orderItem, insertId, metrics, factory, placing, founding, signature>>

\* a method of class DB leaves its try block, by return or by throw
End(method) ==
  /\ method \in connections.calls
  /\ connections' = end(connections, method)
  /\ answer' = NoAnswer
  /\ last' = Idle
  /\ UNCHANGED <<user, userRole, auth, franchise, now, pending, menu, store, dinerOrder,
                 orderItem, insertId, metrics, factory, placing, founding, signature>>

ConnectionNext ==
  \/ \E method \in DbMethods, outcome \in ConnectOutcomes : GetConnection(method, outcome)
  \/ \E method \in DbMethods : End(method)

ConnectionSpec == Init /\ [][ConnectionNext]_vars

\* C30: every database operation releases every connection it acquired on
\* every exit path, a failure of the USE statement right after connecting
\* included: when no operation is in flight no connection is open.
NoConnectionLeft == connections.calls = {} => connections.open = 0

\* ------------------------------------------------------------------ C31
RECURSIVE Contributions(_, _)
\* what the first k persisted orders (the orders sent to the factory) add
\* to the counters: one order, numPizzas = items.length pizzas, the sum of
\* the item prices
Contributions(calls, k) ==
  IF k = 0 THEN NoMetrics
  ELSE LET rest  == Contributions(calls, k - 1)
           items == calls[k].order.items
       IN  [totalOrders      |-> rest.totalOrders + 1,
            successfulOrders |-> rest.successfulOrders + Len(items),
            revenue          |-> rest.revenue + SumOf(items, Len(items))]

\* C31: the metrics of POST /api/order are recorded only for persisted
\* orders: when every request has finished, the order count, the pizza
\* count and the revenue are those of the persisted orders, one order, its
\* items and the sum of its prices each; a request that failed validation
\* or persistence has changed no counter
MetricsOfPersistedOnly ==
  placing = {} => metrics = Contributions(factory.calls, Len(factory.calls))

\* ------------------------------------------------------------------ C32
\* the createOrder handlers that run at the same time in the workflow of
\* concurrent orders
MaxRacing == 2

\* the bodies of concurrent orders: one item, two items of other prices, an
\* item whose menu id resolves to no menu row
RacingBodies ==
  {body \in OrderBodies :
     \/ Len(body.items) = 1 /\ body.items[1].price = 1
     \/ /\ Len(body.items) = 2
        /\ body.items[1] = [menuId |-> 1, description |-> "Veggie", price |-> 2]
        /\ body.items[2].price = 1}

\* concurrent orders: one diner, a menu, createOrder handlers that
\* interleave at their awaits
RacingNext ==
  \/ Register("A", "e2", "p2")
  \/ \E token \in ActiveTokens : Request(token, FALSE)
  \/ \E item \in MenuItems : AddMenu(item)
  \/ \E req \in pending, body \in RacingBodies :
       CreateOrderWithin(MaxRacing, MaxRacing, req, body)
  \/ \E p \in placing, fault \in BOOLEAN : InsertOrder(p, fault)
  \/ \E p \in placing, fault \in BOOLEAN : InsertItem(p, fault)
  \/ \E p \in placing : Persisted(p)
  \/ \E p \in placing, r \in FactoryOutcomes : Fulfil(p, r)

RacingSpec == Init /\ [][RacingNext]_vars

\* the rows of order orderId are the first n items of `items`, in their
\* order, and nothing else
OwnItems(oi, orderId, items, n) ==
  LET rows == itemsOfOrder(oi, orderId)
  IN  /\ Len(rows) = n
      /\ \A i \in 1..n :
           /\ rows[i].menuId = items[i].menuId
           /\ rows[i].description = items[i].description
           /\ rows[i].price = items[i].price

\* the header of order orderId is one row, of diner dinerId
OwnHeader(d, orderId, dinerId) ==
  /\ Cardinality({i \in 1..Len(d) : d[i].id = orderId}) = 1
  /\ \A i \in 1..Len(d) : d[i].id = orderId => d[i].dinerId = dinerId

\* the handlers that start in this step
Started == {p \in placing' \ placing : p.pc = "header"}

\* C32: under any interleaving of concurrent POST /api/order handlers the
\* counters lose no update and every request persists its own rows: each
\* started handler adds one to the order count, the pizza count and the
\* revenue are the sums over the persisted orders, and the rows under the id
\* of an order are the items of its request, as far as its loop has come
RacingLosesNothing ==
  /\ [](/\ metrics.successfulOrders
             = Contributions(factory.calls, Len(factory.calls)).successfulOrders
        /\ metrics.revenue = Contributions(factory.calls, Len(factory.calls)).revenue
        /\ \A p \in placing :
             p.pc # "header" =>
               /\ OwnHeader(dinerOrder, p.orderId, p.user.id)
               /\ OwnItems(orderItem, p.orderId, p.body.items, p.k - 1)
        /\ \A c \in 1..Len(factory.calls) :
             LET order == factory.calls[c].order
             IN  /\ OwnHeader(dinerOrder, order.id, factory.calls[c].diner.id)
                 /\ OwnItems(orderItem, order.id, order.items, Len(order.items)))
  /\ [][metrics'.totalOrders = metrics.totalOrders + Cardinality(Started)]_vars

\* two handlers interleaved and both finished: the order whose header was
\* inserted second was persisted (and counted) first
RacingLosesNothingWitness ==
  /\ placing = {}
  /\ Len(factory.calls) = 2
  /\ factory.calls[1].order.id = 2
  /\ factory.calls[2].order.id = 1
  /\ metrics.totalOrders = 2
  /\ metrics.revenue = SumOf(factory.calls[1].order.items, Len(factory.calls[1].order.items))
                       + SumOf(factory.calls[2].order.items, Len(factory.calls[2].order.items))

\* ------------------------------------------------------------------ C33
\* the rows the session store may hold in the workflow of sessions
MaxTokens == 2

\* sessions: two users register, log in again (in another second, or with
\* the token of the other route) and log out, through the route and through
\* DB.logoutUser
SessionNext ==
  \/ Tick
  \/ \E who \in {<<"e1", "p1">>, <<"e2", "p2">>} : Register("A", who[1], who[2])
  \/ \E who \in {<<"e1", "p1">>, <<"e2", "p2">>} : LoginWithin(MaxTokens, who[1], who[2])
  \/ \E token \in ClientTokens : LogoutUser(token)
  \/ \E token \in ClientTokens : Request(token, FALSE)
  \/ \E req \in pending : Logout(req)

SessionSpec == Init /\ [][SessionNext]_vars

\* C33: logoutUser(t) deletes the sessions stored under token t and nothing
\* else, through DB.logoutUser and through DELETE /api/auth: every other
\* active token, of the same user or of another, stays active, and no
\* user and no role assignment changes.  A user can hold several sessions
\* and revoking one leaves the others
LogoutEndsOneSession ==
  [][ /\ \A token \in ClientTokens : LogoutUser(token) =>
           /\ \A row \in auth : row.token # token => row \in auth'
           /\ \A row \in auth' : row \in auth /\ row.token # token
           /\ UNCHANGED <<user, userRole>>
      /\ \A req \in pending : authenticated(req) /\ Logout(req) =>
           /\ \A row \in auth : row.token # req.token => row \in auth'
           /\ \A row \in auth' : row \in auth /\ row.token # req.token
           /\ UNCHANGED <<user, userRole>>
    ]_vars

\* the only user had two sessions; a logout has just deleted one of them
\* and the other is still there
LogoutEndsOneSessionWitness ==
  /\ last.op = "logout"
  /\ last.status = 200
  /\ last.affected = 1
  /\ Len(user) = 1
  /\ Cardinality(auth) = 1
  /\ \A row \in auth : row.userId = user[1].id /\ isLoggedIn(auth, row.token)

\* ------------------------------------------------------------------ C34
\* POST /api/franchise, await by await.  A call of DB.createFranchise
\* between two awaits: its body, the admins it has looked up, the statement
\* it is at, the id of its franchise row and the admin the role loop is at
Founding(body, admins, pc, franchiseId, k) ==
  [body |-> body, admins |-> admins, pc |-> pc, franchiseId |-> franchiseId, k |-> k]

\* the createFranchise calls that run at the same time
MaxFounding == 1

\* return franchise: the body with its id and the id and name of each admin
founded(c) ==
  Answer("createFranchise", 200, "",
         [id |-> c.franchiseId, name |-> c.body.name, admins |-> c.admins])

\* POST /api/franchise up to the INSERT of the franchise: authenticateToken,
\* the Admin check, and the loop that looks up every admin (404 for the
\* first one without a user)
FoundFranchise(req, body) ==
  LET admins  == body.admins
      unknown == {i \in 1..Len(admins) : firstByEmail(user, admins[i]) = 0}
      first   == CHOOSE i \in unknown : \A j \in unknown : i <= j
      known   == [i \in 1..Len(admins) |->
                    [email |-> admins[i], id |-> firstByEmail(user, admins[i]),
                     name |-> user[firstByEmail(user, admins[i])].name]]
  IN  /\ req \in pending
      /\ pending' = pending \ {req}
      /\ last' = Idle
      /\ UNCHANGED <<user, auth, now, connections, signature>>
      /\ UNCHANGED <<userRole, franchise, menu, store, dinerOrder, orderItem, insertId,
                     metrics, factory, placing>>
      /\ IF denied("createFranchise", req)
         THEN answer' = Unauthorized("createFranchise") /\ UNCHANGED founding
         ELSE IF ~holdsAdmin(req)
         THEN /\ answer' = Answer("createFranchise", 403, "unable to create a franchise",
                                  NoBody)
              /\ UNCHANGED founding
         ELSE IF unknown # {}
         THEN /\ answer' = Thrown("createFranchise",
                                  Error(unknownAdmin(admins[first]), 404))
              /\ UNCHANGED founding
         ELSE /\ Cardinality(founding) < MaxFounding
              /\ insertId.franchise < MaxFranchises
              /\ founding' = founding \cup {Founding(body, known, "franchise", 0, 1)}
              /\ answer' = NoAnswer

\* createFranchise: INSERT INTO franchise (name); franchise.id = insertId.
\* Without admins the call returns
InsertFranchise(c) ==
  LET fid  == insertId.franchise + 1
      next == Founding(c.body, c.admins, "roles", fid, 1)
  IN  /\ c \in founding /\ c.pc = "franchise"
      /\ last' = Idle
      /\ UNCHANGED <<user, auth, now, connections, signature>>
      /\ UNCHANGED <<userRole, pending, menu, store, dinerOrder, orderItem, metrics,
                     factory, placing>>
      /\ franchise' = Append(franchise, [id |-> fid, name |-> c.body.name])
      /\ insertId' = [insertId EXCEPT !.franchise = fid]
      /\ IF c.admins = <<>>
         THEN founding' = founding \ {c} /\ answer' = founded(next)
         ELSE founding' = (founding \ {c}) \cup {next} /\ answer' = NoAnswer

\* createFranchise: INSERT INTO userRole (userId, role, objectId) for the
\* admin the loop is at.  After the last admin the call returns
InsertRole(c) ==
  /\ c \in founding /\ c.pc = "roles"
  /\ last' = Idle
  /\ UNCHANGED <<user, auth, now, connections, signature>>
  /\ UNCHANGED <<franchise, pending, menu, store, dinerOrder, orderItem, insertId,
                 metrics, factory, placing>>
  /\ userRole' = Append(userRole, [userId |-> c.admins[c.k].id, role |-> Franchisee,
                                   objectId |-> c.franchiseId])
  /\ IF c.k = Len(c.admins)
     THEN founding' = founding \ {c} /\ answer' = founded(c)
     ELSE /\ founding' = (founding \ {c}) \cup
                         {Founding(c.body, c.admins, "roles", c.franchiseId, c.k + 1)}
          /\ answer' = NoAnswer

\* franchise franchiseId has a row
franchiseExists(f, franchiseId) == \E i \in 1..Len(f) : f[i].id = franchiseId

\* franchises are created await by await while others are deleted: the
\* administrator (e1) is added through DB.addUser, the diner (e2) registers
\* and becomes the admin of a franchise; stores are added to the
\* franchises that exist
FoundingNext ==
  \/ \E roles \in SeedRoles : user = <<>> /\ AddUser("A", "e1", "p1", roles)
  \/ Register("A", "e2", "p2")
  \/ Login("e1", "p1")
  \/ \E token \in ActiveTokens : LogoutUser(token)
  \/ \E token \in BearerTokens : Request(token, FALSE)
  \/ \E req \in pending, admins \in AdminLists :
       FoundFranchise(req, [name |-> "pizzaPocket", admins |-> admins])
  \/ \E c \in founding : InsertFranchise(c)
  \/ \E c \in founding : InsertRole(c)
  \/ \E req \in pending, franchiseId \in 1..MaxFranchises, fault \in FaultsIn(3) :
       DeleteFranchise(req, franchiseId, fault)
  \/ \E franchiseId \in 1..MaxFranchises, name \in StoreNames :
       franchiseExists(franchise, franchiseId) /\ CreateStore(franchiseId, name)

FoundingSpec == Init /\ [][FoundingNext]_vars

\* C34: in every reachable state, concurrent createStore / createFranchise
\* and deleteFranchise on one franchise id included, the franchiseId of every
\* store and the objectId of every Franchisee role assignment is the id of a
\* franchise that exists
FranchiseRefsResolve ==
  /\ \A i \in 1..Len(store) : franchiseExists(franchise, store[i].franchiseId)
  /\ \A i \in 1..Len(userRole) :
       userRole[i].role = Franchisee => franchiseExists(franchise, userRole[i].objectId)

\* ------------------------------------------------------------------ C35
\* the role assignments that are not scoped to franchise franchiseId: those
\* of another franchise and those of the roles that carry the sentinel 0
OutOfScope(r, franchiseId) ==
  SelectSeq(r, LAMBDA row : ~(row.role = Franchisee /\ row.objectId = franchiseId))

\* the stores of the other franchises
OtherStores(s, franchiseId) == SelectSeq(s, LAMBDA row : row.franchiseId # franchiseId)

\* C35: deleteFranchise(f) deletes only what belongs to franchise f, for
\* every f the route DELETE /api/franchise/:franchiseId can pass: the stores
\* of the other franchises, the role assignments that are not scoped to f
\* (every Diner and Admin assignment, with object id 0) and every user, menu
\* item and order stay as they are
DeleteFranchiseScope ==
  [][\A req \in pending, franchiseId \in 0..MaxFranchises, fault \in FaultsIn(3) :
       DeleteFranchise(req, franchiseId, fault)
       => /\ OtherStores(store', franchiseId) = OtherStores(store, franchiseId)
          /\ OutOfScope(userRole', franchiseId) = OutOfScope(userRole, franchiseId)
          /\ UNCHANGED <<user, menu, dinerOrder, orderItem>>]_vars

\* ------------------------------------------------------------------ C36
\* the role lists DB.addUser is called with: an Admin, a Franchisee of the
\* franchise named pizzaPocket, a Diner who is also that Franchisee
EnrolRoles ==
  {<<RoleOf(Admin, 0)>>,
   <<[role |-> Franchisee, objectId |-> 0, object |-> "pizzaPocket"]>>,
   <<RoleOf(Diner, 0), [role |-> Franchisee, objectId |-> 0, object |-> "pizzaPocket"]>>}

\* users are added through DB.addUser while the franchise their role names
\* comes and goes
EnrolNext ==
  \/ \E email \in {"e1", "e2"}, roles \in EnrolRoles : AddUser("A", email, "p1", roles)
  \/ \E email \in {"e1", "e2"} : Login(email, "p1")
  \/ \E token \in ActiveTokens : LogoutUser(token)
  \/ \E token \in BearerTokens : Request(token, FALSE)
  \/ \E req \in pending :
       CreateFranchise(req, [name |-> "pizzaPocket", admins |-> <<>>], 1)
  \/ \E req \in pending, franchiseId \in 1..MaxFranchises :
       DeleteFranchise(req, franchiseId, 3)

EnrolSpec == Init /\ [][EnrolNext]_vars

\* C36: addUser is all-or-nothing: when the call fails (a Franchisee role
\* names a franchise that does not exist: 'No ID found') no user row and
\* no role assignment of the call is left
AddUserAllOrNothing ==
  [][\A email \in {"e1", "e2"}, roles \in EnrolRoles :
       (/\ AddUser("A", email, "p1", roles)
        /\ addUser(user, userRole, franchise, "A", email, "p1", roles).err # None)
       => UNCHANGED <<user, userRole>>]_vars

\* ------------------------------------------------------------------ C37
\* C37: the description and the price of every stored order item are those
\* of the menu row it refers to (menu rows are only ever added, so the menu
\* at the time of the order is part of the menu now): no request makes the
\* service store a price other than the menu price
ItemsCarryMenuPrice ==
  \A i \in 1..Len(orderItem) :
    \E j \in 1..Len(menu) :
      /\ menu[j].id = orderItem[i].menuId
      /\ orderItem[i].price = menu[j].price
      /\ orderItem[i].description \in {menu[j].title, menu[j].description}

\* ------------------------------------------------------------------ C38
\* C38: authentication is checked at the moment of effect: a step of a
\* createOrder handler inserts an order header or an order item only while
\* the token of its request has a session; after a logout of that token the
\* handler writes nothing
WritesNeedLiveSession ==
  [][(dinerOrder' # dinerOrder \/ orderItem' # orderItem)
     => \E p \in placing : p \notin placing' /\ isLoggedIn(auth, p.user)]_vars

\* ------------------------------------------------------------------ C39
\* two diners place orders one after the other and list them
ListingNext ==
  \/ \E who \in {<<"e1", "p1">>, <<"e2", "p2">>} : Register("A", who[1], who[2])
  \/ \E who \in {<<"e1", "p1">>, <<"e2", "p2">>} : Login(who[1], who[2])
  \/ \E token \in ActiveTokens : LogoutUser(token)
  \/ \E token \in BearerTokens : Request(token, FALSE)
  \/ \E item \in MenuItems : AddMenu(item)
  \/ \E req \in pending, page \in Opt(Pages) : GetOrders(req, page)
  \/ \E req \in pending, body \in RacingBodies :
       CreateOrderWithin(MaxRacing, MaxPlacing, req, body)
  \/ \E p \in placing : InsertOrder(p, FALSE)
  \/ \E p \in placing : InsertItem(p, FALSE)
  \/ \E p \in placing : Persisted(p)
  \/ \E p \in placing, r \in FactoryOutcomes : Fulfil(p, r)

ListingSpec == Init /\ [][ListingNext]_vars

\* the rows of orderItem under order orderId
RowsUnder(orderId) == {j \in 1..Len(orderItem) : orderItem[j].orderId = orderId}

\* C39: getOrders(user, page) returns only orders whose dinerId is the
\* caller's id, each with exactly the items stored under it, whatever the
\* other diners have ordered; the dinerId and the page of the result are the
\* caller's id and the requested page
OnlyOwnOrders ==
  [][\A req \in pending, page \in Opt(Pages) :
       authenticated(req) /\ GetOrders(req, page)
       => LET got == answer'.body
          IN  /\ answer'.status = 200
              /\ got.dinerId = req.token.id
              /\ got.page = (IF page = None THEN 1 ELSE PageNumber[page])
              /\ \A i \in 1..Len(got.orders) :
                   /\ \E k \in 1..Len(dinerOrder) :
                        /\ dinerOrder[k].id = got.orders[i].id
                        /\ dinerOrder[k].dinerId = req.token.id
                   /\ Len(got.orders[i].items) = Cardinality(RowsUnder(got.orders[i].id))
                   /\ \A n \in 1..Len(got.orders[i].items) :
                        \E j \in RowsUnder(got.orders[i].id) :
                          /\ orderItem[j].id = got.orders[i].items[n].id
                          /\ orderItem[j].menuId = got.orders[i].items[n].menuId
                          /\ orderItem[j].price = got.orders[i].items[n].price
                          /\ orderItem[j].description = got.orders[i].items[n].description
                   /\ \A n, m \in 1..Len(got.orders[i].items) :
                        got.orders[i].items[n].id = got.orders[i].items[m].id => n = m]_vars

\* both diners have an order with items; the second diner has just listed
\* their orders and got one order, their own
OnlyOwnOrdersWitness ==
  /\ Len(dinerOrder) = 2
  /\ dinerOrder[1].dinerId = 1
  /\ dinerOrder[2].dinerId = 2
  /\ RowsUnder(1) # {} /\ RowsUnder(2) # {}
  /\ answer.op = "getOrders"
  /\ answer.status = 200
  /\ answer.body.dinerId = 2
  /\ Len(answer.body.orders) = 1
  /\ answer.body.orders[1].id = 2

\* ------------------------------------------------------------------ C40
\* getTokenSignature.  A token is the sequence of its characters
MaxChars == 5

\* the characters of the tokens
Chars == {"a", "b", "."}

\* the tokens of at most MaxChars characters
Tokens == UNION {[1..n -> Chars] : n \in 0..MaxChars}

\* the places of the dots of token
Dots(token) == {i \in 1..Len(token) : token[i] = "."}

RECURSIVE split(_)
\* token.split('.'): the segments between the dots; a token without a dot
\* (the empty token too) is one segment
split(token) ==
  IF Dots(token) = {} THEN <<token>>
  ELSE LET i == CHOOSE d \in Dots(token) : \A e \in Dots(token) : d <= e
       IN  <<SubSeq(token, 1, i - 1)>> \o split(SubSeq(token, i + 1, Len(token)))

\* a getTokenSignature that takes the third segment of a token of three
\* segments only
getTokenSignatureOfThree(token) ==
  LET parts == split(token)
  IN  IF Len(parts) = 3 THEN parts[3] ELSE <<>>

\* getTokenSignature(token): parts = token.split('.');
\* if (parts.length > 2) return parts[2]; return ''
getTokenSignature(token) ==
  LET parts == split(token)
  IN  IF Len(parts) > 2 THEN parts[3] ELSE <<>>

\* DB.getTokenSignature is called with token
GetTokenSignature(token) ==
  /\ signature' = [token |-> token, value |-> getTokenSignature(token)]
  /\ answer' = NoAnswer
  /\ last' = Idle
  /\ UNCHANGED <<user, userRole, auth, franchise, now, pending, menu, store, dinerOrder,
                 orderItem, insertId, metrics, factory, placing, connections, founding>>

SignatureNext == \E token \in Tokens : GetTokenSignature(token)

SignatureSpec == Init /\ [][SignatureNext]_vars

\* the characters of token between its second dot and its third dot (or
\* its end)
ThirdSegment(token) ==
  LET dots   == Dots(token)
      second == CHOOSE d \in dots : Cardinality({e \in dots : e < d}) = 1
      after  == {e \in dots : e > second}
      stop   == IF after = {} THEN Len(token) + 1
                ELSE CHOOSE d \in after : \A e \in after : d <= e
  IN  SubSeq(token, second + 1, stop - 1)

\* C40 as stated: getTokenSignature(token) is the third dot-separated
\* segment when the token has exactly three segments, and the empty string
\* for every token with fewer or more than three
SignatureOfExactlyThree ==
  signature.value = IF Cardinality(Dots(signature.token)) = 2
                    THEN ThirdSegment(signature.token) ELSE <<>>

\* C40, amended: getTokenSignature(token) is the third dot-separated segment
\* when the token has three segments or more, and the empty string when it
\* has fewer than three
SignatureOfThreeOrMore ==
  signature.value = IF Cardinality(Dots(signature.token)) >= 2
                    THEN ThirdSegment(signature.token) ELSE <<>>

\* a token of four segments was given and its third segment came back
SignatureOfThreeOrMoreWitness ==
  /\ Cardinality(Dots(signature.token)) = 3
  /\ signature.value # <<>>
  /\ signature.value = ThirdSegment(signature.token)

====
